---- MODULE Spec2Model ----
(***************************************************************************)
(* A model of the transaction memory pool (src/mempool/mempool.go) and of  *)
(* the UTXO cache with its flush / recovery protocol (src/config.go, the   *)
(* blockchain package part) of bchd.                                       *)
(*                                                                         *)
(* Two state machines share this module:                                   *)
(*   Spec       the mempool: pool, outpoints, orphans, orphansByPrev       *)
(*   CacheSpec  the utxo cache over its durable store                      *)
(* Each leaves the variables of the other unchanged.                       *)
(***************************************************************************)
EXTENDS Integers, Sequences, FiniteSets, TLC

VARIABLES
    \* ---- mempool.TxPool (mempool.go:165-183) ----
    pool,            \* set of tx hashes: the keys of mp.pool
    orphans,         \* function hash -> [tag, expiration]: mp.orphans
    orphansByPrev,   \* function outpoint -> set of hashes: mp.orphansByPrev
    outpoints,       \* function outpoint -> hash of the pool tx spending it
    nextExpireScan,  \* mp.nextExpireScan
    \* ---- environment of the mempool ----
    maxOrphanTxs,    \* mp.cfg.Policy.MaxOrphanTxs
    chainUtxos,      \* outpoints the best chain reports unspent (cfg.FetchUtxoView)
    now,             \* time.Now(), in minutes
    last,            \* the last call and what it returned: op, its argument tx
                     \* (hash or tag), the reject code err, the accepted
                     \* hashes, and n: numEvicted of RemoveOrphansByTag, or the
                     \* number of orphans an admission removed
    \* ---- the database under the utxo cache ----
    db,              \* the utxo bucket: function outpoint -> stored record
    marker,          \* the utxo state consistency record: [status, hash]
    journal,         \* the spend journal: journal[k] = stxos of block k
    tip,             \* height (= hash) of the best chain tip
    \* ---- blockchain.utxoCache (config.go:2976-2998) ----
    cachedEntries,   \* function outpoint -> entry or Nil: s.cachedEntries
    lastFlushHash,   \* s.lastFlushHash
    \* ---- where the process is, and the locals of the call in progress ----
    pc,              \* "down", "idle", or a point of flush / InitConsistentState
    flushHash,       \* flush: bestState.Hash
    flushRet,        \* flush: where its caller continues
    nbFlushed,       \* flush: batches written so far
    statusHeight,    \* InitConsistentState: statusNode
    node,            \* InitConsistentState: node
    attach,          \* InitConsistentState: front of attachNodes (attach..tip)
    interrupt,       \* InitConsistentState: the interrupt channel is closed
    \* ---- blockchain.UtxoViewpoint (config.go:2326-2329) ----
    view,            \* function outpoint -> entry or Nil: view.entries
    \* ---- the locks, and the calls in progress on each thread ----
    mtx,             \* the holders of mp.mtx, b.chainLock and s.mtx
    thr,             \* per thread: the call it is in, its arguments and locals
    \* ---- the memory accounting of the cache (followed in MemSpec) ----
    totalEntryMemory, \* s.totalEntryMemory
    memUnderflow,    \* a subtraction from totalEntryMemory has wrapped around
    \* ---- the free-transaction rate limit (followed in RateSpec) ----
    pennyTotal,      \* mp.pennyTotal, in bytes
    lastPennyUnix,   \* mp.lastPennyUnix, on the clock of now
    \* ---- history ----
    ev,              \* the last thing that happened to the cache
    killedAt,        \* where the last kill hit
    snap             \* what FetchEntry returned for every outpoint just before
                     \* the last connect or flush

\* the locks and threads belong to both machines: the sequential machines
\* leave them alone
memVars == <<totalEntryMemory, memUnderflow>>
rateVars == <<pennyTotal, lastPennyUnix>>
concVars == <<mtx, thr, memVars, rateVars>>

mpVars == <<pool, orphans, orphansByPrev, outpoints, nextExpireScan,
            maxOrphanTxs, chainUtxos, now, last, concVars>>

dbVars == <<db, marker, journal, tip>>
cacheVars == <<cachedEntries, lastFlushHash>>
callVars == <<pc, flushHash, flushRet, nbFlushed, statusHeight, node, attach>>
histVars == <<ev, killedAt, snap>>
utxoVars == <<dbVars, cacheVars, callVars, interrupt, view, histVars, concVars>>

vars == <<mpVars, utxoVars>>

-----------------------------------------------------------------------------
(* Bounds of the model *)

\* largest MaxOrphanTxs policy value explored
MaxOrphanBound == 2
\* the clock stops advancing past this minute
MaxTime == 16
\* the best chain grows up to this height
MaxHeight == 3
\* utxoBatchSizeEntries and utxoBatchSizeBlocks, scaled down from 200000
\* entries and 50 blocks so that a flush and a recovery take several batches
utxoBatchSizeEntries == 2
utxoBatchSizeBlocks == 2

(* Program constants, in minutes *)
orphanTTL == 15
orphanExpireScanInterval == 5

\* chainhash.Hash{}: the hash no block has
ZeroHash == 0 - 1

-----------------------------------------------------------------------------
(* Generic helpers *)

Restrict(f, S) == [x \in S |-> f[x]]

Range(s) == {s[i] : i \in 1..Len(s)}

\* wire.OutPoint{Hash, Index}
OutPoint(h, i) == <<h, i>>

-----------------------------------------------------------------------------
(* The transactions the callers may submit.  A transaction is identified   *)
(* by its hash (its index in TxTable).  ins is MsgTx().TxIn in order, nOut *)
(* is len(MsgTx().TxOut); sane is the verdict of                           *)
(* blockchain.CheckTransactionSanity and scriptsOK the verdict of          *)
(* blockchain.ValidateTransactionScripts, both external to the pool; size   *)
(* is MsgTx().SerializeSize() and big says that it exceeds                 *)
(* Policy.MaxOrphanTxSize, here 1600000; fee is the txFee blockchain.CheckTransactionInputs *)
(* returns, the inputs' amounts less the outputs'.                         *)
(* Hash 0 is a transaction mined long ago whose outputs fund the others.   *)

TxTable == <<
    [ins |-> <<OutPoint(0, 0)>>, nOut |-> 2, sane |-> TRUE, scriptsOK |-> TRUE,
     big |-> FALSE, size |-> 250, fee |-> 1000],
    [ins |-> <<OutPoint(0, 0)>>, nOut |-> 1, sane |-> TRUE, scriptsOK |-> TRUE,
     big |-> TRUE, size |-> 1600001, fee |-> 1700000],
    [ins |-> <<OutPoint(1, 0)>>, nOut |-> 1, sane |-> TRUE, scriptsOK |-> TRUE,
     big |-> FALSE, size |-> 250, fee |-> 1000],
    [ins |-> <<OutPoint(1, 0)>>, nOut |-> 1, sane |-> TRUE, scriptsOK |-> FALSE,
     big |-> FALSE, size |-> 250, fee |-> 1000],
    [ins |-> <<OutPoint(3, 0), OutPoint(0, 1)>>, nOut |-> 1, sane |-> TRUE, scriptsOK |-> TRUE,
     big |-> FALSE, size |-> 250, fee |-> 1000],
    [ins |-> <<OutPoint(0, 0)>>, nOut |-> 1, sane |-> FALSE, scriptsOK |-> TRUE,
     big |-> FALSE, size |-> 250, fee |-> 1000],
    [ins |-> <<OutPoint(1, 0)>>, nOut |-> 1, sane |-> TRUE, scriptsOK |-> TRUE,
     big |-> FALSE, size |-> 250, fee |-> 1000],
    [ins |-> <<OutPoint(1, 1)>>, nOut |-> 1, sane |-> TRUE, scriptsOK |-> TRUE,
     big |-> FALSE, size |-> 1599000, fee |-> 1599000],
    [ins |-> <<OutPoint(1, 0)>>, nOut |-> 1, sane |-> TRUE, scriptsOK |-> TRUE,
     big |-> FALSE, size |-> 1599000, fee |-> 1598999],
    [ins |-> <<OutPoint(0, 1)>>, nOut |-> 1, sane |-> TRUE, scriptsOK |-> TRUE,
     big |-> FALSE, size |-> 1598999, fee |-> 0],
    [ins |-> <<OutPoint(0, 1)>>, nOut |-> 1, sane |-> TRUE, scriptsOK |-> TRUE,
     big |-> FALSE, size |-> 250, fee |-> 0],
    [ins |-> <<OutPoint(0, 1)>>, nOut |-> 1, sane |-> TRUE, scriptsOK |-> FALSE,
     big |-> FALSE, size |-> 250, fee |-> 0],
    [ins |-> <<OutPoint(1, 1)>>, nOut |-> 1, sane |-> TRUE, scriptsOK |-> TRUE,
     big |-> FALSE, size |-> 250, fee |-> 0]
>>

\* the transactions of the general machine; 8, 9 and 10 are the large
\* transactions the fee machine submits besides
TxHashes == 1..7
FeeTxs == {1, 8, 9, 10}
\* the transactions of the rate-limit machine: 11, 12 and 13 pay no fee, 12
\* has a script that does not verify
RateTxs == {1, 11, 12, 13}

Tags == {1, 2}

TxIn(h) == TxTable[h].ins
TxInSet(h) == Range(TxTable[h].ins)
TxOutPoints(h) == {OutPoint(h, i) : i \in 0..(TxTable[h].nOut - 1)}

\* The four maps of the pool, passed to and returned by the helpers below.
MP == [pool |-> pool, orphans |-> orphans, orphansByPrev |-> orphansByPrev,
       outpoints |-> outpoints]

-----------------------------------------------------------------------------
(* Orphan pool *)

\* removeOrphan, first loop: drop h from the index of each of its inputs and
\* delete an index entry that becomes empty.  (The _KeepEmpty variant, which
\* leaves the emptied entries behind, is a fault-injection variant.)
RemoveOrphanIndex_KeepEmpty(byPrev, h) ==
    [o \in DOMAIN byPrev |->
        IF o \in TxInSet(h) THEN byPrev[o] \ {h} ELSE byPrev[o]]

RemoveOrphanIndex(byPrev, h) ==
    LET emptied == {o \in DOMAIN byPrev : o \in TxInSet(h) /\ byPrev[o] \ {h} = {}}
    IN [o \in DOMAIN byPrev \ emptied |->
            IF o \in TxInSet(h) THEN byPrev[o] \ {h} ELSE byPrev[o]]

RECURSIVE removeOrphan(_, _, _)
RECURSIVE RemoveOrphanSet(_, _)
RECURSIVE RemoveRedeemers(_, _, _)

\* for _, orphan := range S { mp.removeOrphan(orphan, true) }: an entry the
\* recursion removes before it is reached is skipped by removeOrphan itself.
RemoveOrphanSet(M, S) ==
    IF S = {} THEN M
    ELSE LET x == CHOOSE x \in S : TRUE
         IN RemoveOrphanSet(removeOrphan(M, x, TRUE), S \ {x})

\* removeOrphan, second loop: the orphans redeeming outputs idx.. of h.
RemoveRedeemers(M, h, idx) ==
    IF idx >= TxTable[h].nOut THEN M
    ELSE LET prevOut == OutPoint(h, idx)
             M1 == IF prevOut \in DOMAIN M.orphansByPrev
                   THEN RemoveOrphanSet(M, M.orphansByPrev[prevOut])
                   ELSE M
         IN RemoveRedeemers(M1, h, idx + 1)

removeOrphan(M, h, removeRedeemers) ==
    IF h \notin DOMAIN M.orphans THEN M
    ELSE LET M1 == [M EXCEPT !.orphansByPrev = RemoveOrphanIndex(@, h)]
             M2 == IF removeRedeemers THEN RemoveRedeemers(M1, h, 0) ELSE M1
         IN [M2 EXCEPT !.orphans = Restrict(@, DOMAIN @ \ {h})]

\* The expiry scan of limitNumOrphans: a range over mp.orphans that removes
\* entries while it runs.  Go produces each key still in the map at most once,
\* in any order; the result is the set of maps the scan can end with.
RECURSIVE ExpireScan(_, _, _)
\* (fault-injection variant: an expired orphan is removed without its
\* redeemers)
ExpireScan_NoRedeemers(M, t, visited) ==
    LET rest == DOMAIN M.orphans \ visited
    IN IF rest = {} THEN {M}
       ELSE UNION {ExpireScan(IF t > M.orphans[h].expiration
                              THEN removeOrphan(M, h, FALSE) ELSE M,
                              t, visited \cup {h}) : h \in rest}

ExpireScan(M, t, visited) ==
    LET rest == DOMAIN M.orphans \ visited
    IN IF rest = {} THEN {M}
       ELSE UNION {ExpireScan(IF t > M.orphans[h].expiration
                              THEN removeOrphan(M, h, TRUE) ELSE M,
                              t, visited \cup {h}) : h \in rest}

\* limitNumOrphans: the set of [m, scan] it can end with, where scan is the
\* new nextExpireScan.  (The _NoEvict variant, which scans but never evicts,
\* is a fault-injection variant.)
limitNumOrphans_NoEvict(M, t, scanAt, maxOrphans) ==
    LET scanned == IF t > scanAt THEN ExpireScan(M, t, {}) ELSE {M}
        scan == IF t > scanAt THEN t + orphanExpireScanInterval ELSE scanAt
    IN {[m |-> M1, scan |-> scan] : M1 \in scanned}

limitNumOrphans(M, t, scanAt, maxOrphans) ==
    LET scanned == IF t > scanAt THEN ExpireScan(M, t, {}) ELSE {M}
        scan == IF t > scanAt THEN t + orphanExpireScanInterval ELSE scanAt
        evict(M1) == IF Cardinality(DOMAIN M1.orphans) + 1 <= maxOrphans
                     THEN {M1}
                     ELSE {removeOrphan(M1, h, FALSE) : h \in DOMAIN M1.orphans}
    IN {[m |-> M2, scan |-> scan] : M2 \in UNION {evict(M1) : M1 \in scanned}}

\* the two stores of addOrphan, after limitNumOrphans
StoreOrphan(M, h, tag, t) ==
    [M EXCEPT
        !.orphans = [x \in DOMAIN @ \cup {h} |->
                        IF x = h THEN [tag |-> tag, expiration |-> t + orphanTTL]
                        ELSE @[x]],
        !.orphansByPrev = [o \in DOMAIN @ \cup TxInSet(h) |->
                        IF o \in TxInSet(h)
                        THEN (IF o \in DOMAIN @ THEN @[o] ELSE {}) \cup {h}
                        ELSE @[o]]]

addOrphan(M, h, tag, t, scanAt, maxOrphans) ==
    IF maxOrphans <= 0 THEN {[m |-> M, scan |-> scanAt]}
    ELSE {[m |-> StoreOrphan(r.m, h, tag, t), scan |-> r.scan] :
            r \in limitNumOrphans(M, t, scanAt, maxOrphans)}

\* (fault-injection variant: the orphans that spend the inputs of h are left
\* where they are)
RemoveOrphanDoubleSpendsFrom_Skip(M, h, k) == M

\* removeOrphanDoubleSpends
RECURSIVE RemoveOrphanDoubleSpendsFrom(_, _, _)
RemoveOrphanDoubleSpendsFrom(M, h, k) ==
    IF k > Len(TxIn(h)) THEN M
    ELSE LET prevOut == TxIn(h)[k]
             M1 == IF prevOut \in DOMAIN M.orphansByPrev
                   THEN RemoveOrphanSet(M, M.orphansByPrev[prevOut])
                   ELSE M
         IN RemoveOrphanDoubleSpendsFrom(M1, h, k + 1)

removeOrphanDoubleSpends(M, h) == RemoveOrphanDoubleSpendsFrom(M, h, 1)

-----------------------------------------------------------------------------
(* Main pool *)

\* addTransaction: mp.pool[hash] = txD; mp.outpoints[prevOut] = tx per input
addTransaction(M, h) ==
    [M EXCEPT
        !.pool = @ \cup {h},
        !.outpoints = [o \in DOMAIN @ \cup TxInSet(h) |->
                            IF o \in TxInSet(h) THEN h ELSE @[o]]]

RECURSIVE removeTransaction(_, _, _)
RECURSIVE RemoveTxRedeemers(_, _, _)

\* removeTransaction, first loop: the pool transactions redeeming outputs i..
RemoveTxRedeemers(M, h, i) ==
    IF i >= TxTable[h].nOut THEN M
    ELSE LET prevOut == OutPoint(h, i)
             M1 == IF prevOut \in DOMAIN M.outpoints
                   THEN removeTransaction(M, M.outpoints[prevOut], TRUE)
                   ELSE M
         IN RemoveTxRedeemers(M1, h, i + 1)

\* (fault-injection variant: the redeemers stay in the pool)
removeTransaction_NoRedeemers(M, h, removeRedeemers) ==
    IF h \in M.pool
    THEN [M EXCEPT !.outpoints = Restrict(@, DOMAIN @ \ TxInSet(h)),
                   !.pool = @ \ {h}]
    ELSE M

\* (fault-injection variant: the spent outpoints are not unmarked)
removeTransaction_KeepOutpoints(M, h, removeRedeemers) ==
    LET M1 == IF removeRedeemers THEN RemoveTxRedeemers(M, h, 0) ELSE M
    IN IF h \in M1.pool THEN [M1 EXCEPT !.pool = @ \ {h}] ELSE M1

removeTransaction(M, h, removeRedeemers) ==
    LET M1 == IF removeRedeemers THEN RemoveTxRedeemers(M, h, 0) ELSE M
    IN IF h \in M1.pool
       THEN [M1 EXCEPT
                !.outpoints = Restrict(@, DOMAIN @ \ TxInSet(h)),
                !.pool = @ \ {h}]
       ELSE M1

\* RemoveDoubleSpends, input by input
RECURSIVE RemoveDoubleSpendsFrom(_, _, _)
RemoveDoubleSpendsFrom(M, h, k) ==
    IF k > Len(TxIn(h)) THEN M
    ELSE LET prevOut == TxIn(h)[k]
             M1 == IF prevOut \in DOMAIN M.outpoints /\ M.outpoints[prevOut] # h
                   THEN removeTransaction(M, M.outpoints[prevOut], TRUE)
                   ELSE M
         IN RemoveDoubleSpendsFrom(M1, h, k + 1)

\* checkPoolDoubleSpend: the reject code when some input is already spent by
\* a pool transaction, "none" otherwise.  (The _Invalid variant, which
\* answers with another code, is a fault-injection variant.)
checkPoolDoubleSpend_Invalid(M, h) ==
    IF \E k \in 1..Len(TxIn(h)) : TxIn(h)[k] \in DOMAIN M.outpoints
    THEN "Invalid" ELSE "none"

checkPoolDoubleSpend(M, h) ==
    IF \E k \in 1..Len(TxIn(h)) : TxIn(h)[k] \in DOMAIN M.outpoints
    THEN "Duplicate" ELSE "none"

\* fetchInputUtxos: the input outpoints for which the view ends with an
\* unspent entry: unspent in the chain, or an existing output of a pool tx.
fetchInputUtxos(M, utxos, h) ==
    {o \in TxInSet(h) :
        \/ o \in utxos
        \/ o[1] \in M.pool /\ o[2] < TxTable[o[1]].nOut}

\* The duplicate test that opens maybeAcceptTransaction: isTransactionInPool,
\* or isOrphanInPool when rejectDupOrphans.  (The _PoolOnly variant, which
\* never looks at the orphans, is a fault-injection variant.)
haveTransaction_PoolOnly(M, h, rejectDupOrphans) == h \in M.pool

haveTransaction(M, h, rejectDupOrphans) ==
    h \in M.pool \/ (rejectDupOrphans /\ h \in DOMAIN M.orphans)

\* DefaultBlockPrioritySize, and Policy.MinRelayTxFee in satoshi per 1000 bytes
DefaultBlockPrioritySize == 1600000
MinRelayTxFee == 1000

\* calcMinRequiredTxRelayFee: the fee for the size at the rate, at least 1
calcMinRequiredTxRelayFee(serializedSize, minRelayTxFee) ==
    LET minFee == (serializedSize * minRelayTxFee) \div 1000
    IN IF minFee < 1 THEN 1 ELSE minFee

\* the fee test of maybeAcceptTransaction.  The priority test and the rate
\* limit that follow it for a fee under the minimum are taken to pass
\* (Policy.DisableRelayPriority set, no rate limit).
InsufficientFee(h) ==
    /\ TxTable[h].size >= DefaultBlockPrioritySize - 1000
    /\ TxTable[h].fee < calcMinRequiredTxRelayFee(TxTable[h].size, MinRelayTxFee)

\* (fault-injection variant: no fee test)
maybeAcceptTransaction_NoFeeTest(M, utxos, h, rejectDupOrphans) ==
    IF haveTransaction(M, h, rejectDupOrphans)
    THEN [err |-> "Duplicate", missing |-> {}]
    ELSE IF ~TxTable[h].sane
    THEN [err |-> "Invalid", missing |-> {}]
    ELSE IF checkPoolDoubleSpend(M, h) # "none"
    THEN [err |-> checkPoolDoubleSpend(M, h), missing |-> {}]
    ELSE IF TxOutPoints(h) \cap utxos # {}
    THEN [err |-> "Duplicate", missing |-> {}]
    ELSE LET missingParents ==
                {o[1] : o \in TxInSet(h) \ fetchInputUtxos(M, utxos, h)}
         IN IF missingParents # {}
            THEN [err |-> "none", missing |-> missingParents]
            ELSE IF ~TxTable[h].scriptsOK
            THEN [err |-> "Invalid", missing |-> {}]
            ELSE [err |-> "none", missing |-> {}]

\* maybeAcceptTransaction up to, not including, addTransaction: the reject
\* code ("none" when there is none) and the hashes of the missing parents.
maybeAcceptTransaction(M, utxos, h, rejectDupOrphans) ==
    IF haveTransaction(M, h, rejectDupOrphans)
    THEN [err |-> "Duplicate", missing |-> {}]
    ELSE IF ~TxTable[h].sane
    THEN [err |-> "Invalid", missing |-> {}]
    ELSE IF checkPoolDoubleSpend(M, h) # "none"
    THEN [err |-> checkPoolDoubleSpend(M, h), missing |-> {}]
    ELSE IF TxOutPoints(h) \cap utxos # {}
    THEN [err |-> "Duplicate", missing |-> {}]
    ELSE LET missingParents ==
                {o[1] : o \in TxInSet(h) \ fetchInputUtxos(M, utxos, h)}
         IN IF missingParents # {}
            THEN [err |-> "none", missing |-> missingParents]
            ELSE IF InsufficientFee(h)
            THEN [err |-> "InsufficientFee", missing |-> {}]
            ELSE IF ~TxTable[h].scriptsOK
            THEN [err |-> "Invalid", missing |-> {}]
            ELSE [err |-> "none", missing |-> {}]

\* processOrphans.  Each function below is one loop of it and yields the set
\* of [m, acc] the call can end with: m the maps, acc the accepted hashes in
\* order.  The orphans redeeming one output are a Go map, ranged over in any
\* order.
RECURSIVE ProcessList(_, _, _, _, _)
RECURSIVE ProcessOutputs(_, _, _, _, _, _, _)
RECURSIVE ProcessRedeemers(_, _, _, _, _, _, _, _, _)

\* (fault-injection variant: an accepted orphan is put at the front of the
\* accepted list instead of its end)
ProcessRedeemers_Prepend(M, utxos, acceptedTx, queue, acc, item, idx, redeemers, visited) ==
    LET rest == redeemers \ visited
    IN IF rest = {}
       THEN ProcessOutputs(M, utxos, acceptedTx, queue, acc, item, idx + 1)
       ELSE UNION {
            LET r == maybeAcceptTransaction(M, utxos, h, FALSE)
            IN IF r.err # "none"
               THEN ProcessOutputs(removeOrphan(M, h, TRUE), utxos, acceptedTx,
                                   queue, acc, item, idx + 1)
               ELSE IF r.missing # {}
               THEN ProcessRedeemers(M, utxos, acceptedTx, queue, acc, item, idx,
                                     redeemers, visited \cup {h})
               ELSE ProcessOutputs(removeOrphan(addTransaction(M, h), h, FALSE),
                                   utxos, acceptedTx, Append(queue, h),
                                   <<h>> \o acc, item, idx + 1)
            : h \in rest}

\* for _, tx := range orphans
ProcessRedeemers(M, utxos, acceptedTx, queue, acc, item, idx, redeemers, visited) ==
    LET rest == redeemers \ visited
    IN IF rest = {}
       THEN ProcessOutputs(M, utxos, acceptedTx, queue, acc, item, idx + 1)
       ELSE UNION {
            LET r == maybeAcceptTransaction(M, utxos, h, FALSE)
            IN IF r.err # "none"
               THEN ProcessOutputs(removeOrphan(M, h, TRUE), utxos, acceptedTx,
                                   queue, acc, item, idx + 1)
               ELSE IF r.missing # {}
               THEN ProcessRedeemers(M, utxos, acceptedTx, queue, acc, item, idx,
                                     redeemers, visited \cup {h})
               ELSE ProcessOutputs(removeOrphan(addTransaction(M, h), h, FALSE),
                                   utxos, acceptedTx, Append(queue, h),
                                   Append(acc, h), item, idx + 1)
            : h \in rest}

\* for txOutIdx := range processItem.MsgTx().TxOut
ProcessOutputs(M, utxos, acceptedTx, queue, acc, item, idx) ==
    IF idx >= TxTable[item].nOut
    THEN ProcessList(M, utxos, acceptedTx, queue, acc)
    ELSE IF OutPoint(item, idx) \notin DOMAIN M.orphansByPrev
    THEN ProcessOutputs(M, utxos, acceptedTx, queue, acc, item, idx + 1)
    ELSE ProcessRedeemers(M, utxos, acceptedTx, queue, acc, item, idx,
                          M.orphansByPrev[OutPoint(item, idx)], {})

RECURSIVE RemoveAcceptedDoubleSpends(_, _, _)
RemoveAcceptedDoubleSpends(M, acc, k) ==
    IF k > Len(acc) THEN M
    ELSE RemoveAcceptedDoubleSpends(removeOrphanDoubleSpends(M, acc[k]), acc, k + 1)

\* for processList.Len() > 0, then the removal of the definitive double spends.
\* (The _FirstOnly variant, which never processes an accepted orphan in its
\* turn, is a fault-injection variant.)
ProcessList_FirstOnly(M, utxos, acceptedTx, queue, acc) ==
    IF queue = <<>> \/ Head(queue) # acceptedTx
    THEN {[m |-> RemoveAcceptedDoubleSpends(
                    removeOrphanDoubleSpends(M, acceptedTx), acc, 1),
           acc |-> acc]}
    ELSE ProcessOutputs(M, utxos, acceptedTx, Tail(queue), acc, Head(queue), 0)

ProcessList(M, utxos, acceptedTx, queue, acc) ==
    IF queue = <<>>
    THEN {[m |-> RemoveAcceptedDoubleSpends(
                    removeOrphanDoubleSpends(M, acceptedTx), acc, 1),
           acc |-> acc]}
    ELSE ProcessOutputs(M, utxos, acceptedTx, Tail(queue), acc, Head(queue), 0)

processOrphans(M, utxos, acceptedTx) ==
    ProcessList(M, utxos, acceptedTx, <<acceptedTx>>, <<>>)

\* RemoveOrphansByTag: a range over mp.orphans that removes entries while it
\* runs; the set of [m, n] it can end with, n being numEvicted.
RECURSIVE TagScan(_, _, _, _)
\* (fault-injection variant: a tagged orphan is removed without its
\* redeemers)
TagScan_NoRedeemers(M, tag, visited, n) ==
    LET rest == DOMAIN M.orphans \ visited
    IN IF rest = {} THEN {[m |-> M, n |-> n]}
       ELSE UNION {IF M.orphans[h].tag = tag
                   THEN TagScan(removeOrphan(M, h, FALSE), tag, visited \cup {h}, n + 1)
                   ELSE TagScan(M, tag, visited \cup {h}, n) : h \in rest}

TagScan(M, tag, visited, n) ==
    LET rest == DOMAIN M.orphans \ visited
    IN IF rest = {} THEN {[m |-> M, n |-> n]}
       ELSE UNION {IF M.orphans[h].tag = tag
                   THEN TagScan(removeOrphan(M, h, TRUE), tag, visited \cup {h}, n + 1)
                   ELSE TagScan(M, tag, visited \cup {h}, n) : h \in rest}

-----------------------------------------------------------------------------
(* The mempool state machine *)

\* the threads that call into the pool and the cache
Procs == {"p", "q"}
None == "nobody"

\* mp.mtx and b.chainLock are sync.RWMutex (a writer w or a set r of readers),
\* s.mtx is a sync.Mutex (a holder)
NoLocks == [mp |-> [w |-> None, r |-> {}],
            chain |-> [w |-> None, r |-> {}],
            cache |-> None]

\* a thread that is in no call
IdleThread == [pc |-> "idle", op |-> "none", tx |-> 0, out |-> <<0, 0>>,
               flag |-> FALSE, k |-> 0, err |-> "none", acc |-> <<>>,
               todo |-> {}, pre |-> <<>>]

\* the database and the cache of a node that never ran: no marker, no utxo,
\* the chain at its genesis block, the process not started
UtxoInit ==
    /\ db = <<>>
    /\ marker = [status |-> "Empty", hash |-> ZeroHash]
    /\ journal = <<>>
    /\ tip = 0
    /\ cachedEntries = <<>>
    /\ lastFlushHash = ZeroHash
    /\ pc = "down"
    /\ flushHash = ZeroHash
    /\ flushRet = "none"
    /\ nbFlushed = 0
    /\ statusHeight = 0
    /\ node = 0
    /\ attach = 0
    /\ interrupt = FALSE
    /\ view = <<>>
    /\ mtx = NoLocks
    /\ totalEntryMemory = 0
    /\ memUnderflow = FALSE
    /\ pennyTotal = 0
    /\ lastPennyUnix = 0
    /\ thr = [p \in Procs |-> IdleThread]
    /\ ev = "none"
    /\ killedAt = "none"
    /\ snap = <<>>

Init ==
    /\ UtxoInit
    /\ pool = {}
    /\ orphans = <<>>
    /\ orphansByPrev = <<>>
    /\ outpoints = <<>>
    /\ now = 0
    /\ nextExpireScan = orphanExpireScanInterval
    /\ maxOrphanTxs \in 0..MaxOrphanBound
    /\ chainUtxos = {OutPoint(0, 0), OutPoint(0, 1)}
    /\ last = [op |-> "New", tx |-> 0, err |-> "none", accepted |-> <<>>, n |-> 0]

\* the maps become those of M
SetMaps(M) ==
    /\ pool' = M.pool
    /\ orphans' = M.orphans
    /\ orphansByPrev' = M.orphansByPrev
    /\ outpoints' = M.outpoints

Returned(op, h, err, accepted, n) ==
    last' = [op |-> op, tx |-> h, err |-> err, accepted |-> accepted, n |-> n]

ProcessTransaction(h, allowOrphan, tag) ==
    LET r == maybeAcceptTransaction(MP, chainUtxos, h, TRUE)
    IN /\ UNCHANGED <<maxOrphanTxs, chainUtxos, now, utxoVars>>
       /\ IF r.err # "none"
          THEN /\ Returned("ProcessTransaction", h, r.err, <<>>, 0)
               /\ UNCHANGED <<pool, orphans, orphansByPrev, outpoints, nextExpireScan>>
          ELSE IF r.missing = {}
          THEN \E out \in processOrphans(addTransaction(MP, h), chainUtxos, h) :
               /\ SetMaps(out.m)
               /\ Returned("ProcessTransaction", h, "none", <<h>> \o out.acc, 0)
               /\ UNCHANGED nextExpireScan
          ELSE IF ~allowOrphan
          THEN /\ Returned("ProcessTransaction", h, "Duplicate", <<>>, 0)
               /\ UNCHANGED <<pool, orphans, orphansByPrev, outpoints, nextExpireScan>>
          ELSE IF TxTable[h].big
          THEN /\ Returned("ProcessTransaction", h, "Nonstandard", <<>>, 0)
               /\ UNCHANGED <<pool, orphans, orphansByPrev, outpoints, nextExpireScan>>
          ELSE \E out \in addOrphan(MP, h, tag, now, nextExpireScan, maxOrphanTxs) :
               /\ SetMaps(out.m)
               /\ nextExpireScan' = out.scan
               /\ Returned("ProcessTransaction", h, "none", <<>>,
                           Cardinality(DOMAIN orphans \ DOMAIN out.m.orphans))

MaybeAcceptTransaction(h) ==
    LET r == maybeAcceptTransaction(MP, chainUtxos, h, TRUE)
    IN /\ UNCHANGED <<maxOrphanTxs, chainUtxos, now, nextExpireScan, utxoVars>>
       /\ IF r.err = "none" /\ r.missing = {}
          THEN SetMaps(addTransaction(MP, h))
          ELSE UNCHANGED <<pool, orphans, orphansByPrev, outpoints>>
       /\ Returned("MaybeAcceptTransaction", h, r.err,
                   IF r.err = "none" /\ r.missing = {} THEN <<h>> ELSE <<>>, 0)

ProcessOrphans(h) ==
    \E out \in processOrphans(MP, chainUtxos, h) :
        /\ SetMaps(out.m)
        /\ Returned("ProcessOrphans", h, "none", out.acc, 0)
        /\ UNCHANGED <<maxOrphanTxs, chainUtxos, now, nextExpireScan, utxoVars>>

RemoveOrphan(h) ==
    /\ SetMaps(removeOrphan(MP, h, FALSE))
    /\ Returned("RemoveOrphan", 0, "none", <<>>, 0)
    /\ UNCHANGED <<maxOrphanTxs, chainUtxos, now, nextExpireScan, utxoVars>>

RemoveOrphansByTag(tag) ==
    \E out \in TagScan(MP, tag, {}, 0) :
        /\ SetMaps(out.m)
        /\ Returned("RemoveOrphansByTag", tag, "none", <<>>, out.n)
        /\ UNCHANGED <<maxOrphanTxs, chainUtxos, now, nextExpireScan, utxoVars>>

RemoveTransaction(h, removeRedeemers) ==
    /\ SetMaps(removeTransaction(MP, h, removeRedeemers))
    /\ Returned("RemoveTransaction", h, "none", <<>>,
                Cardinality(pool \ removeTransaction(MP, h, removeRedeemers).pool))
    /\ UNCHANGED <<maxOrphanTxs, chainUtxos, now, nextExpireScan, utxoVars>>

RemoveDoubleSpends(h) ==
    /\ SetMaps(RemoveDoubleSpendsFrom(MP, h, 1))
    /\ Returned("RemoveDoubleSpends", h, "none", <<>>,
                Cardinality(pool \ RemoveDoubleSpendsFrom(MP, h, 1).pool))
    /\ UNCHANGED <<maxOrphanTxs, chainUtxos, now, nextExpireScan, utxoVars>>

\* the transactions that blocks may hold
MinedTxs == {1}

\* The best chain gains a block holding h: what cfg.FetchUtxoView reports
\* changes.  The pool itself is told through the calls above.
BlockConnected(h) ==
    /\ h \in MinedTxs
    /\ TxTable[h].sane /\ TxTable[h].scriptsOK
    /\ TxInSet(h) \subseteq chainUtxos
    /\ chainUtxos' = (chainUtxos \ TxInSet(h)) \cup TxOutPoints(h)
    /\ Returned("BlockConnected", 0, "none", <<>>, 0)
    /\ UNCHANGED <<pool, orphans, orphansByPrev, outpoints, nextExpireScan,
                   maxOrphanTxs, now, utxoVars>>

TickSteps == {16}

Tick(d) ==
    /\ now + d <= MaxTime
    /\ now' = now + d
    /\ Returned("Tick", 0, "none", <<>>, 0)
    /\ UNCHANGED <<pool, orphans, orphansByPrev, outpoints, nextExpireScan,
                   maxOrphanTxs, chainUtxos, utxoVars>>

Next ==
    \/ \E h \in TxHashes, allowOrphan \in BOOLEAN, tag \in Tags :
            ProcessTransaction(h, allowOrphan, tag)
    \/ \E h \in TxHashes : MaybeAcceptTransaction(h)
    \/ \E h \in TxHashes : ProcessOrphans(h)
    \/ \E h \in TxHashes : RemoveOrphan(h)
    \/ \E tag \in Tags : RemoveOrphansByTag(tag)
    \/ \E h \in TxHashes, removeRedeemers \in BOOLEAN :
            RemoveTransaction(h, removeRedeemers)
    \/ \E h \in TxHashes : RemoveDoubleSpends(h)
    \/ \E h \in MinedTxs : BlockConnected(h)
    \/ \E d \in TickSteps : Tick(d)

Spec == Init /\ [][Next]_vars

\* A pool that only receives transactions, orphans allowed, while the clock
\* moves in steps that let orphans of different ages wait together.
ExpiryTickSteps == {6, 10}

ExpiryNext ==
    \/ \E h \in TxHashes, tag \in Tags : ProcessTransaction(h, TRUE, tag)
    \/ \E d \in ExpiryTickSteps : Tick(d)

ExpirySpec == Init /\ [][ExpiryNext]_vars

\* A pool that receives a small transaction and large ones that spend its
\* outputs or the chain's, directly or as orphans, and forgets them again.
FeeNext ==
    \/ \E h \in FeeTxs, allowOrphan \in BOOLEAN, tag \in Tags :
            ProcessTransaction(h, allowOrphan, tag)
    \/ \E h \in FeeTxs : MaybeAcceptTransaction(h)
    \/ \E h \in FeeTxs, removeRedeemers \in BOOLEAN :
            RemoveTransaction(h, removeRedeemers)

FeeSpec == Init /\ [][FeeNext]_vars

-----------------------------------------------------------------------------
(* The rate limit of free transactions (mempool.go:945-967).  mp.pennyTotal *)
(* is a float64; it is followed here in whole bytes, rounded down.          *)

\* Policy.FreeTxRelayLimit*10*1000, the level at which free transactions
\* are turned away, for a limit of 0.05
FreeRelayLimitBytes == 500

\* math.Pow(1.0-1.0/600.0, 60): the decay over one step of the clock, in
\* thousandths
DecayPerMinute == 905

\* mp.pennyTotal *= math.Pow(1.0-1.0/600.0, float64(nowUnix-mp.lastPennyUnix))
RECURSIVE Decay(_, _)
Decay(total, minutes) ==
    IF minutes <= 0 THEN total
    ELSE Decay((total * DecayPerMinute) \div 1000, minutes - 1)

\* the rest of maybeAcceptTransaction from the script validation on, with
\* the accumulator it leaves
ValidateScripts(h, total, lastUnix) ==
    [err |-> IF TxTable[h].scriptsOK THEN "none" ELSE "Invalid", missing |-> {},
     pennyTotal |-> total, lastPennyUnix |-> lastUnix]

\* the rate limit step and what follows it
RateLimitStep(h, rateLimit, total, lastUnix, nowUnix) ==
    IF rateLimit
       /\ TxTable[h].fee < calcMinRequiredTxRelayFee(TxTable[h].size, MinRelayTxFee)
    THEN LET decayed == Decay(total, nowUnix - lastUnix)
         IN IF decayed >= FreeRelayLimitBytes
            THEN [err |-> "InsufficientFee", missing |-> {},
                  pennyTotal |-> decayed, lastPennyUnix |-> nowUnix]
            ELSE ValidateScripts(h, decayed + TxTable[h].size, nowUnix)
    ELSE ValidateScripts(h, total, lastUnix)

\* maybeAcceptTransaction with its rate limit: the reject code, the missing
\* parents and the accumulator when it returns.  The steps before the rate
\* limit are those of maybeAcceptTransaction above.
maybeAcceptTransactionRate(M, utxos, h, rateLimit, rejectDupOrphans, total, lastUnix, nowUnix) ==
    LET Early(err, missing) ==
            [err |-> err, missing |-> missing,
             pennyTotal |-> total, lastPennyUnix |-> lastUnix]
    IN IF haveTransaction(M, h, rejectDupOrphans)
       THEN Early("Duplicate", {})
       ELSE IF ~TxTable[h].sane
       THEN Early("Invalid", {})
       ELSE IF checkPoolDoubleSpend(M, h) # "none"
       THEN Early(checkPoolDoubleSpend(M, h), {})
       ELSE IF TxOutPoints(h) \cap utxos # {}
       THEN Early("Duplicate", {})
       ELSE LET missingParents ==
                   {o[1] : o \in TxInSet(h) \ fetchInputUtxos(M, utxos, h)}
            IN IF missingParents # {}
               THEN Early("none", missingParents)
               ELSE IF InsufficientFee(h)
               THEN Early("InsufficientFee", {})
               ELSE RateLimitStep(h, rateLimit, total, lastUnix, nowUnix)

\* what a call of the rate-limit machine leaves as it is
RateUnchanged ==
    UNCHANGED <<nextExpireScan, maxOrphanTxs, chainUtxos, now, mtx, thr, memVars,
                dbVars, cacheVars, callVars, interrupt, view, histVars>>

\* ProcessTransaction(tx, allowOrphan = false, rateLimit, tag).  No orphan
\* is ever stored, so processOrphans finds none to accept.
RateProcessTransaction(h, rateLimit) ==
    LET r == maybeAcceptTransactionRate(MP, chainUtxos, h, rateLimit, TRUE,
                                        pennyTotal, lastPennyUnix, now)
    IN /\ RateUnchanged
       /\ pennyTotal' = r.pennyTotal
       /\ lastPennyUnix' = r.lastPennyUnix
       /\ IF r.err # "none"
          THEN /\ Returned("ProcessTransaction", h, r.err, <<>>, 0)
               /\ UNCHANGED <<pool, orphans, orphansByPrev, outpoints>>
          ELSE IF r.missing = {}
          THEN \E out \in processOrphans(addTransaction(MP, h), chainUtxos, h) :
               /\ SetMaps(out.m)
               /\ Returned("ProcessTransaction", h, "none", <<h>> \o out.acc, 0)
          ELSE /\ Returned("ProcessTransaction", h, "Duplicate", <<>>, 0)
               /\ UNCHANGED <<pool, orphans, orphansByPrev, outpoints>>

\* MaybeAcceptTransaction(tx, isNew, rateLimit)
RateMaybeAcceptTransaction(h, rateLimit) ==
    LET r == maybeAcceptTransactionRate(MP, chainUtxos, h, rateLimit, TRUE,
                                        pennyTotal, lastPennyUnix, now)
    IN /\ RateUnchanged
       /\ pennyTotal' = r.pennyTotal
       /\ lastPennyUnix' = r.lastPennyUnix
       /\ IF r.err = "none" /\ r.missing = {}
          THEN SetMaps(addTransaction(MP, h))
          ELSE UNCHANGED <<pool, orphans, orphansByPrev, outpoints>>
       /\ Returned("MaybeAcceptTransaction", h, r.err,
                   IF r.err = "none" /\ r.missing = {} THEN <<h>> ELSE <<>>, 0)

RateTickSteps == {6}

RateNext ==
    \/ \E h \in RateTxs, rateLimit \in BOOLEAN : RateProcessTransaction(h, rateLimit)
    \/ \E h \in RateTxs, rateLimit \in BOOLEAN : RateMaybeAcceptTransaction(h, rateLimit)
    \/ \E h \in RateTxs : RemoveTransaction(h, TRUE)
    \/ \E d \in RateTickSteps : Tick(d)

RateSpec == Init /\ [][RateNext]_vars

-----------------------------------------------------------------------------
(* The pool under concurrent callers.  Every exported method takes mp.mtx   *)
(* before it touches the maps and releases it when it is done; what it     *)
(* does in between is split at the writes of addTransaction and            *)
(* removeTransaction, where pool and outpoints disagree for a moment.      *)

\* the transactions and calls of the concurrent machine
LockTxs == {1, 3, 5}
WriterOps == {"ProcessTransaction", "MaybeAcceptTransaction",
              "RemoveTransaction", "RemoveDoubleSpends"}
ReaderOps == {"CheckSpend", "FetchTransaction", "IsTransactionInPool",
              "FetchInputUtxos"}
WriterPcs == {"accept", "outpoints", "orphans", "remove", "delOutpoints",
              "delPool", "doubleSpends", "unlock"}

\* thread p moves to pc, with the listed changes to its locals
Goto(p, pcv) == thr' = [thr EXCEPT ![p].pc = pcv]

\* mp.mtx.Lock(): waits until no writer and no reader holds the lock
MpLock(p) ==
    /\ mtx.mp.w = None /\ mtx.mp.r = {}
    /\ mtx' = [mtx EXCEPT !.mp.w = p]

\* mp.mtx.Unlock()
MpUnlock(p) ==
    /\ mtx.mp.w = p
    /\ mtx' = [mtx EXCEPT !.mp.w = None]

\* (fault-injection variant: a reader that does not wait for the writer)
MpRLock_NoWait(p) ==
    mtx' = [mtx EXCEPT !.mp.r = @ \cup {p}]

\* mp.mtx.RLock(): waits until no writer holds the lock
MpRLock(p) ==
    /\ mtx.mp.w = None
    /\ mtx' = [mtx EXCEPT !.mp.r = @ \cup {p}]

\* mp.mtx.RUnlock()
MpRUnlock(p) ==
    /\ p \in mtx.mp.r
    /\ mtx' = [mtx EXCEPT !.mp.r = @ \ {p}]

LockUnchanged == UNCHANGED <<memVars, rateVars, nextExpireScan, maxOrphanTxs, chainUtxos, now, dbVars,
                             cacheVars, callVars, interrupt, view, histVars>>

\* a writer enters: ProcessTransaction, MaybeAcceptTransaction,
\* RemoveTransaction or RemoveDoubleSpends takes the lock
WriterEnter(p, op, h, removeRedeemers) ==
    /\ thr[p].pc = "idle"
    /\ MpLock(p)
    /\ thr' = [thr EXCEPT ![p] =
                [IdleThread EXCEPT
                    !.pc = CASE op \in {"ProcessTransaction", "MaybeAcceptTransaction"} -> "accept"
                             [] op = "RemoveTransaction" -> "remove"
                             [] OTHER -> "doubleSpends",
                    !.op = op, !.tx = h, !.flag = removeRedeemers]]
    /\ UNCHANGED <<pool, orphans, orphansByPrev, outpoints, last>>
    /\ LockUnchanged

\* maybeAcceptTransaction up to mp.pool[*tx.Hash()] = txD of addTransaction;
\* a transaction with missing parents is stored as an orphan by
\* ProcessTransaction (allowOrphan set, tag 1)
Accept(p) ==
    LET h == thr[p].tx
        r == maybeAcceptTransaction(MP, chainUtxos, h, TRUE)
    IN /\ thr[p].pc = "accept"
       /\ UNCHANGED <<mtx, last, maxOrphanTxs, chainUtxos, now, dbVars, cacheVars,
                      callVars, interrupt, view, histVars, memVars, rateVars>>
       /\ IF r.err # "none"
          THEN /\ thr' = [thr EXCEPT ![p].pc = "unlock", ![p].err = r.err]
               /\ UNCHANGED <<pool, orphans, orphansByPrev, outpoints, nextExpireScan>>
          ELSE IF r.missing = {}
          THEN /\ pool' = pool \cup {h}
               /\ thr' = [thr EXCEPT ![p].pc = "outpoints", ![p].k = 1, ![p].acc = <<h>>]
               /\ UNCHANGED <<orphans, orphansByPrev, outpoints, nextExpireScan>>
          ELSE IF thr[p].op = "MaybeAcceptTransaction" \/ TxTable[h].big
          THEN /\ thr' = [thr EXCEPT ![p].pc = "unlock",
                                     ![p].err = IF TxTable[h].big /\ thr[p].op = "ProcessTransaction"
                                                THEN "Nonstandard" ELSE "none"]
               /\ UNCHANGED <<pool, orphans, orphansByPrev, outpoints, nextExpireScan>>
          ELSE \E out \in addOrphan(MP, h, 1, now, nextExpireScan, maxOrphanTxs) :
               /\ SetMaps(out.m)
               /\ nextExpireScan' = out.scan
               /\ Goto(p, "unlock")

\* addTransaction: mp.outpoints[txIn.PreviousOutPoint] = tx, one input a step
AddOutpoint(p) ==
    LET h == thr[p].tx
        k == thr[p].k
    IN /\ thr[p].pc = "outpoints"
       /\ outpoints' = [o \in DOMAIN outpoints \cup {TxIn(h)[k]} |->
                            IF o = TxIn(h)[k] THEN h ELSE outpoints[o]]
       /\ thr' = [thr EXCEPT ![p].k = k + 1,
                             ![p].pc = IF k < Len(TxIn(h)) THEN "outpoints"
                                       ELSE IF thr[p].op = "ProcessTransaction" THEN "orphans"
                                       ELSE "unlock"]
       /\ UNCHANGED <<pool, orphans, orphansByPrev, mtx, last>>
       /\ LockUnchanged

\* ProcessTransaction: mp.processOrphans(tx), still under the lock
Promote(p) ==
    /\ thr[p].pc = "orphans"
    /\ \E out \in processOrphans(MP, chainUtxos, thr[p].tx) :
            /\ SetMaps(out.m)
            /\ thr' = [thr EXCEPT ![p].pc = "unlock", ![p].acc = @ \o out.acc]
    /\ UNCHANGED <<mtx, last>>
    /\ LockUnchanged

\* removeTransaction: the redeemers first when asked for, then the test
\* whether the transaction is in the pool
Remove(p) ==
    LET h == thr[p].tx
        M1 == IF thr[p].flag THEN RemoveTxRedeemers(MP, h, 0) ELSE MP
    IN /\ thr[p].pc = "remove"
       /\ SetMaps(M1)
       /\ thr' = [thr EXCEPT ![p].k = 1,
                             ![p].pc = IF h \in M1.pool THEN "delOutpoints" ELSE "unlock"]
       /\ UNCHANGED <<mtx, last>>
       /\ LockUnchanged

\* removeTransaction: delete(mp.outpoints, txIn.PreviousOutPoint), one input
\* a step
DelOutpoint(p) ==
    LET h == thr[p].tx
        k == thr[p].k
    IN /\ thr[p].pc = "delOutpoints"
       /\ outpoints' = Restrict(outpoints, DOMAIN outpoints \ {TxIn(h)[k]})
       /\ thr' = [thr EXCEPT ![p].k = k + 1,
                             ![p].pc = IF k < Len(TxIn(h)) THEN "delOutpoints" ELSE "delPool"]
       /\ UNCHANGED <<pool, orphans, orphansByPrev, mtx, last>>
       /\ LockUnchanged

\* removeTransaction: delete(mp.pool, *txHash)
DelPool(p) ==
    /\ thr[p].pc = "delPool"
    /\ pool' = pool \ {thr[p].tx}
    /\ Goto(p, "unlock")
    /\ UNCHANGED <<orphans, orphansByPrev, outpoints, mtx, last>>
    /\ LockUnchanged

\* RemoveDoubleSpends: the loop over the inputs
DoubleSpends(p) ==
    /\ thr[p].pc = "doubleSpends"
    /\ SetMaps(RemoveDoubleSpendsFrom(MP, thr[p].tx, 1))
    /\ Goto(p, "unlock")
    /\ UNCHANGED <<mtx, last>>
    /\ LockUnchanged

\* the writer releases the lock and returns
WriterLeave(p) ==
    /\ thr[p].pc = "unlock"
    /\ MpUnlock(p)
    /\ Returned(thr[p].op, thr[p].tx, thr[p].err, thr[p].acc, 0)
    /\ thr' = [thr EXCEPT ![p] = IdleThread]
    /\ UNCHANGED <<pool, orphans, orphansByPrev, outpoints>>
    /\ LockUnchanged

\* a reader enters: CheckSpend(op), FetchTransaction(h), IsTransactionInPool(h)
\* or FetchInputUtxos(h) takes the read lock
ReaderEnter(p, op, h) ==
    /\ thr[p].pc = "idle"
    /\ MpRLock(p)
    /\ thr' = [thr EXCEPT ![p] =
                [IdleThread EXCEPT !.pc = "reading", !.op = op, !.tx = h,
                                   !.out = TxIn(h)[1]]]
    /\ UNCHANGED <<pool, orphans, orphansByPrev, outpoints, last>>
    /\ LockUnchanged

\* what the reader reads from the maps: the spender of the outpoint (0 for
\* nil), whether the transaction is in the pool, or the number of inputs
\* fetchInputUtxos finds unspent
ReadResult(op, h, o) ==
    CASE op = "CheckSpend" -> IF o \in DOMAIN outpoints THEN outpoints[o] ELSE 0
      [] op = "FetchInputUtxos" -> Cardinality(fetchInputUtxos(MP, chainUtxos, h))
      [] OTHER -> IF h \in pool THEN 1 ELSE 0

\* the reader reads, releases the lock and returns
ReaderLeave(p) ==
    /\ thr[p].pc = "reading"
    /\ MpRUnlock(p)
    /\ Returned(thr[p].op, thr[p].tx, "none", <<>>,
                ReadResult(thr[p].op, thr[p].tx, thr[p].out))
    /\ thr' = [thr EXCEPT ![p] = IdleThread]
    /\ UNCHANGED <<pool, orphans, orphansByPrev, outpoints>>
    /\ LockUnchanged

LockNext ==
    \/ \E p \in Procs, op \in WriterOps, h \in LockTxs, removeRedeemers \in BOOLEAN :
            WriterEnter(p, op, h, removeRedeemers /\ op = "RemoveTransaction")
    \/ \E p \in Procs : Accept(p)
    \/ \E p \in Procs : AddOutpoint(p)
    \/ \E p \in Procs : Promote(p)
    \/ \E p \in Procs : Remove(p)
    \/ \E p \in Procs : DelOutpoint(p)
    \/ \E p \in Procs : DelPool(p)
    \/ \E p \in Procs : DoubleSpends(p)
    \/ \E p \in Procs : WriterLeave(p)
    \/ \E p \in Procs, op \in ReaderOps, h \in LockTxs : ReaderEnter(p, op, h)
    \/ \E p \in Procs : ReaderLeave(p)

LockSpec == Init /\ [][LockNext]_vars

-----------------------------------------------------------------------------
(* The best chain the UTXO cache follows.  Block k has height k and hash k; *)
(* height 0 is the genesis block, whose coinbase is not spendable.  The     *)
(* first transaction of a block is its coinbase.  Block 2 spends an output  *)
(* created earlier in the same block, block 3 spends one created later in   *)
(* the same block (canonical ordering).  nOut counts the outputs that are   *)
(* not provably unspendable, the only ones addTxOuts and                    *)
(* disconnectTransactions look at: blocks 4 and 5 hold a coinbase whose     *)
(* outputs are all unspendable.                                             *)

BlockTable == <<
    <<[hash |-> 11, ins |-> <<>>, nOut |-> 1]>>,
    <<[hash |-> 21, ins |-> <<>>, nOut |-> 1],
      [hash |-> 22, ins |-> <<OutPoint(11, 0)>>, nOut |-> 1],
      [hash |-> 23, ins |-> <<OutPoint(22, 0)>>, nOut |-> 1]>>,
    <<[hash |-> 31, ins |-> <<>>, nOut |-> 1],
      [hash |-> 32, ins |-> <<OutPoint(33, 0)>>, nOut |-> 1],
      [hash |-> 33, ins |-> <<OutPoint(23, 0)>>, nOut |-> 1]>>,
    <<[hash |-> 41, ins |-> <<>>, nOut |-> 0]>>,
    <<[hash |-> 51, ins |-> <<>>, nOut |-> 0]>>
>>

\* every outpoint the chain ever creates
AllOutPoints ==
    UNION {UNION {{OutPoint(BlockTable[k][i].hash, j) :
                        j \in 0..(BlockTable[k][i].nOut - 1)} :
                  i \in 1..Len(BlockTable[k])} :
           k \in 1..Len(BlockTable)}

\* wire.TxOut of an outpoint: Value and PkScript
TxOutValue(o) == o[1] + o[2]
TxOutPkScript(o) == <<"script", o>>

\* IsCoinBase
IsCoinBase(tx) == tx.ins = <<>>

\* the outputs of a transaction of the chain that are not provably
\* unspendable, and whether an outpoint belongs to a coinbase
TxOutPointsOf(tx) == {OutPoint(tx.hash, j) : j \in 0..(tx.nOut - 1)}
IsCoinBaseOutPoint(o) ==
    \E k \in 1..Len(BlockTable) : BlockTable[k][1].hash = o[1]

\* the nil *UtxoEntry, and the nil pkScript of a spent entry
Nil == [isNil |-> TRUE]
NoScript == <<>>

\* UtxoEntry with its packedFlags spelled out
UtxoEntry(amount, pkScript, blockHeight, coinbase, spent, modified, fresh) ==
    [amount |-> amount, pkScript |-> pkScript, blockHeight |-> blockHeight,
     coinbase |-> coinbase, spent |-> spent, modified |-> modified, fresh |-> fresh]

\* what the database keeps of an entry (dbPutUtxoEntries), and the entry
\* dbFetchUtxoEntry builds from it: the coinbase flag is the only flag stored
DbRecord(e) ==
    [amount |-> e.amount, pkScript |-> e.pkScript, blockHeight |-> e.blockHeight,
     coinbase |-> e.coinbase]
dbFetchUtxoEntry(D, o) ==
    IF o \in DOMAIN D
    THEN UtxoEntry(D[o].amount, D[o].pkScript, D[o].blockHeight, D[o].coinbase,
                   FALSE, FALSE, FALSE)
    ELSE Nil

\* m[k] = v for a map held as a function
Put(m, k, v) == [x \in DOMAIN m \cup {k} |-> IF x = k THEN v ELSE m[x]]

\* s.cachedEntries[outpoint], nil when the key is missing
Cached(C, o) == IF o \in DOMAIN C THEN C[o] ELSE Nil

-----------------------------------------------------------------------------
(* utxoCache as a utxoView.  C is s.cachedEntries, D the utxo bucket of the *)
(* database.                                                                *)

\* getEntry / fetchAndCacheEntry: the entry and the cache after the lookup
getEntry(C, D, o) ==
    IF o \in DOMAIN C
    THEN [c |-> C, e |-> C[o]]
    ELSE [c |-> Put(C, o, dbFetchUtxoEntry(D, o)), e |-> dbFetchUtxoEntry(D, o)]

\* addEntry (no output of the chain above is provably unspendable)
addEntry(C, o, entry, overwrite) ==
    LET cachedEntry == Cached(C, o)
    IN IF ~overwrite /\ cachedEntry # Nil /\ ~cachedEntry.spent
       THEN C
       ELSE LET e1 == IF ~overwrite /\ cachedEntry = Nil /\ ~entry.modified
                      THEN [entry EXCEPT !.fresh = TRUE]
                      ELSE entry
            IN Put(C, o, [e1 EXCEPT !.modified = TRUE])

\* spendEntry.  addEntry works on the very object addIfNil, so after it the
\* entry looked at is the one just stored.
spendEntry(C, o, addIfNil) ==
    LET added == Cached(C, o) = Nil /\ addIfNil # Nil
        C1 == IF added THEN addEntry(C, o, addIfNil, FALSE) ELSE C
        entry == Cached(C1, o)
    IN IF entry = Nil \/ entry.spent
       THEN C1
       ELSE IF entry.fresh
       THEN Put(C1, o, Nil)
       ELSE Put(C1, o, [entry EXCEPT !.spent = TRUE, !.modified = TRUE,
                                     !.pkScript = NoScript])

\* addTxOuts, from output idx on
RECURSIVE addTxOuts(_, _, _, _, _, _)
addTxOuts(C, tx, blockHeight, isCoinBase, overwrite, idx) ==
    IF idx >= tx.nOut THEN C
    ELSE LET prevOut == OutPoint(tx.hash, idx)
             entry == UtxoEntry(TxOutValue(prevOut), TxOutPkScript(prevOut),
                                blockHeight, isCoinBase, FALSE, TRUE, ~overwrite)
         IN addTxOuts(addEntry(C, prevOut, entry, overwrite), tx, blockHeight,
                      isCoinBase, overwrite, idx + 1)

\* SpentTxOut built from the entry about to be spent
SpentTxOut(entry) ==
    [Amount |-> entry.amount, PkScript |-> entry.pkScript,
     Height |-> entry.blockHeight, IsCoinBase |-> entry.coinbase]

\* spendTransactionInputs, from input k on.  R carries the cache c, the stxos
\* collected so far and err, set when the view misses an input.
RECURSIVE spendTransactionInputs(_, _, _, _, _)
spendTransactionInputs(R, D, tx, collect, k) ==
    IF k > Len(tx.ins) \/ R.err THEN R
    ELSE LET g == getEntry(R.c, D, tx.ins[k])
         IN IF g.e = Nil
            THEN [R EXCEPT !.c = g.c, !.err = TRUE]
            ELSE spendTransactionInputs(
                    [c |-> spendEntry(g.c, tx.ins[k], g.e),
                     stxos |-> IF collect THEN Append(R.stxos, SpentTxOut(g.e))
                               ELSE R.stxos,
                     err |-> FALSE],
                    D, tx, collect, k + 1)

\* connectTransactions: all outputs of the block first, then all inputs
RECURSIVE ConnectOutputs(_, _, _, _, _)
ConnectOutputs(C, block, blockHeight, overwrite, i) ==
    IF i > Len(block) THEN C
    ELSE ConnectOutputs(addTxOuts(C, block[i], blockHeight, IsCoinBase(block[i]),
                                  overwrite, 0),
                        block, blockHeight, overwrite, i + 1)

RECURSIVE ConnectInputs(_, _, _, _, _)
ConnectInputs(R, D, block, collect, i) ==
    IF i > Len(block) \/ R.err THEN R
    ELSE ConnectInputs(IF IsCoinBase(block[i]) THEN R
                       ELSE spendTransactionInputs(R, D, block[i], collect, 1),
                       D, block, collect, i + 1)

\* a connectTransactions that handles one transaction after the other, the
\* outputs of a transaction right after its inputs
RECURSIVE ConnectPerTx(_, _, _, _, _, _, _)
ConnectPerTx(R, D, block, blockHeight, collect, overwrite, i) ==
    IF i > Len(block) \/ R.err THEN R
    ELSE LET S == IF IsCoinBase(block[i]) THEN R
                  ELSE spendTransactionInputs(R, D, block[i], collect, 1)
         IN ConnectPerTx([S EXCEPT !.c = addTxOuts(S.c, block[i], blockHeight,
                                                   IsCoinBase(block[i]), overwrite, 0)],
                         D, block, blockHeight, collect, overwrite, i + 1)

connectTransactions_PerTx(C, D, block, blockHeight, collect, overwrite) ==
    ConnectPerTx([c |-> C, stxos |-> <<>>, err |-> FALSE],
                 D, block, blockHeight, collect, overwrite, 1)

connectTransactions(C, D, block, blockHeight, collect, overwrite) ==
    ConnectInputs([c |-> ConnectOutputs(C, block, blockHeight, overwrite, 1),
                   stxos |-> <<>>, err |-> FALSE],
                  D, block, collect, 1)

\* countSpentOutputs: the inputs of the non-coinbase transactions
RECURSIVE countSpentOutputs(_, _)
countSpentOutputs(block, i) ==
    IF i > Len(block) THEN 0
    ELSE Len(block[i].ins) + countSpentOutputs(block, i + 1)

\* disconnectTransactions, first pass: transactions txIdx..1 and, within
\* one, inputs txInIdx..1, each restored from stxos[stxoIdx]
RECURSIVE RestoreInputs(_, _, _, _, _, _)
RestoreInputs(C, block, stxos, txIdx, txInIdx, stxoIdx) ==
    IF txIdx < 1 THEN C
    ELSE IF txInIdx < 1
    THEN RestoreInputs(C, block, stxos, txIdx - 1,
                       IF txIdx > 1 THEN Len(block[txIdx - 1].ins) ELSE 0, stxoIdx)
    ELSE IF txIdx = 1
    THEN C
    ELSE LET stxo == stxos[stxoIdx]
             entry == UtxoEntry(stxo.Amount, stxo.PkScript, stxo.Height,
                                stxo.IsCoinBase, FALSE, TRUE, FALSE)
         IN RestoreInputs(addEntry(C, block[txIdx].ins[txInIdx], entry, TRUE),
                          block, stxos, txIdx, txInIdx - 1, stxoIdx - 1)

\* disconnectTransactions, second pass: the outputs txOutIdx.. of
\* transaction txIdx, then those of the transactions before it
RECURSIVE SpendOutputs(_, _, _, _, _)
SpendOutputs(C, block, blockHeight, txIdx, txOutIdx) ==
    IF txIdx < 1 THEN C
    ELSE IF txOutIdx >= block[txIdx].nOut
    THEN SpendOutputs(C, block, blockHeight, txIdx - 1, 0)
    ELSE LET prevOut == OutPoint(block[txIdx].hash, txOutIdx)
             entry == UtxoEntry(TxOutValue(prevOut), TxOutPkScript(prevOut),
                                blockHeight, txIdx = 1, FALSE, FALSE, FALSE)
         IN SpendOutputs(spendEntry(C, prevOut, entry), block, blockHeight,
                         txIdx, txOutIdx + 1)

\* disconnectTransactions: the cache after it and whether it failed
disconnectTransactions(C, block, blockHeight, stxos) ==
    IF Len(stxos) # countSpentOutputs(block, 1)
    THEN [c |-> C, err |-> TRUE]
    ELSE [c |-> SpendOutputs(
                    RestoreInputs(C, block, stxos, Len(block),
                                  Len(block[Len(block)].ins), Len(stxos)),
                    block, blockHeight, Len(block), 0),
          err |-> FALSE]

\* rollBackBlock and rollForwardBlock of the recovery
\* a rollForwardBlock that adds the outputs of the block and spends nothing
rollForwardBlock_OutputsOnly(C, D, block, blockHeight) ==
    [c |-> ConnectOutputs(C, block, blockHeight, TRUE, 1), stxos |-> <<>>,
     err |-> FALSE]
rollBackBlock(C, block, blockHeight, stxos) ==
    disconnectTransactions(C, block, blockHeight, stxos)
rollForwardBlock(C, D, block, blockHeight) ==
    connectTransactions(C, D, block, blockHeight, FALSE, TRUE)

\* the unspent outputs after the blocks 1..h, computed from the blocks alone
RECURSIVE UtxoSetAt(_)
UtxoSetAt(h) ==
    IF h = 0 THEN {}
    ELSE LET block == BlockTable[h]
             created == UNION {{OutPoint(block[i].hash, j) :
                                    j \in 0..(block[i].nOut - 1)} :
                               i \in 1..Len(block)}
             spent == UNION {Range(block[i].ins) : i \in 1..Len(block)}
         IN (UtxoSetAt(h - 1) \cup created) \ spent

\* the height of the block that creates outpoint o
CreatedAt(o) ==
    CHOOSE k \in 1..Len(BlockTable) :
        \E i \in 1..Len(BlockTable[k]) : BlockTable[k][i].hash = o[1]

\* the utxo bucket a chain at height h should have
UtxoBucketAt(h) ==
    [o \in UtxoSetAt(h) |->
        [amount |-> TxOutValue(o), pkScript |-> TxOutPkScript(o),
         blockHeight |-> CreatedAt(o),
         coinbase |-> \E k \in 1..Len(BlockTable) : BlockTable[k][1].hash = o[1]]]

-----------------------------------------------------------------------------
(* The utxo cache state machine: a node that connects blocks, flushes, is   *)
(* killed and restarted.  Block k is durable (block store, spend journal,   *)
(* best state) as soon as it is connected; the utxo bucket changes only in  *)
(* the database transactions of flush.                                      *)

\* what FetchEntry(o) returns, as the caller sees it
FetchValue(o) == getEntry(cachedEntries, db, o).e
FetchAll == [o \in AllOutPoints |-> FetchValue(o)]

\* the locals of flush and InitConsistentState when no call is in progress
NoCall ==
    /\ flushHash' = ZeroHash
    /\ flushRet' = "none"
    /\ nbFlushed' = 0
    /\ statusHeight' = 0
    /\ node' = 0
    /\ attach' = 0

\* blockNode.parent: the node one block below on the chain; the genesis
\* block (height 0) has none, its parent is the nil *blockNode
NilNode == 0 - 2
Parent(n) == IF n > 0 THEN n - 1 ELSE NilNode

\* the walk `for node := tip; node.height >= 0; node = node.parent` that looks
\* for the node with the status hash: every node has a height of 0 or more,
\* so the walk ends at the node it finds or reads node.height of the nil
\* parent of the genesis block
RECURSIVE FindStatusNode(_, _)
FindStatusNode(n, statusHash) ==
    IF n = NilNode THEN [panic |-> TRUE, statusNode |-> NilNode]
    ELSE IF n = statusHash THEN [panic |-> FALSE, statusNode |-> n]
    ELSE FindStatusNode(Parent(n), statusHash)

\* InitConsistentState(tip, fastSync = false) up to the rollback loop
Start ==
    /\ pc = "down"
    /\ UNCHANGED <<db, journal, tip, cachedEntries, snap, killedAt, mpVars, interrupt, view>>
    /\ IF marker.status = "Empty"
       THEN /\ marker' = [status |-> "Consistent", hash |-> tip]
            /\ lastFlushHash' = tip
            /\ pc' = "idle"
            /\ ev' = "initDone"
            /\ NoCall
       ELSE IF marker.status = "Consistent" /\ marker.hash = tip
       THEN /\ lastFlushHash' = tip
            /\ pc' = "idle"
            /\ ev' = IF ev = "flushedDown" THEN "roundTrip" ELSE "initDone"
            /\ NoCall
            /\ UNCHANGED marker
       ELSE /\ lastFlushHash' = marker.hash
            /\ UNCHANGED marker
            /\ ev' = "recovering"
            /\ IF FindStatusNode(tip, marker.hash).panic
               THEN pc' = "panic" /\ NoCall
               ELSE /\ statusHeight' = marker.hash
                    /\ node' = tip
                    /\ attach' = marker.hash + 1
                    /\ pc' = IF tip > marker.hash THEN "rollback" ELSE "rolledback"
                    /\ UNCHANGED <<flushHash, flushRet, nbFlushed>>

\* (fault-injection variant: a batch is full after its first block, so that
\* the loop never moves node)
rollbackBatch_Stuck(C, n, nbBatchBlocks) ==
    IF n <= statusHeight THEN [c |-> C, node |-> n, err |-> FALSE]
    ELSE [c |-> rollBackBlock(C, BlockTable[n], n, journal[n]).c, node |-> n,
          err |-> FALSE]

\* rollbackBatch: the loop leaves node on the block it disconnected last
\* when the batch is full
RECURSIVE rollbackBatch(_, _, _)
rollbackBatch(C, n, nbBatchBlocks) ==
    IF n <= statusHeight THEN [c |-> C, node |-> n, err |-> FALSE]
    ELSE LET r == rollBackBlock(C, BlockTable[n], n, journal[n])
         IN IF r.err THEN [c |-> r.c, node |-> n, err |-> TRUE]
            ELSE IF nbBatchBlocks + 1 >= utxoBatchSizeBlocks
            THEN [c |-> r.c, node |-> n, err |-> FALSE]
            ELSE rollbackBatch(r.c, n - 1, nbBatchBlocks + 1)

\* one turn of the rollback loop; after the last one, flush(statusHash)
RollbackBatch ==
    /\ pc = "rollback"
    /\ LET r == rollbackBatch(cachedEntries, node, 0)
       IN /\ cachedEntries' = r.c
          /\ node' = r.node
          /\ pc' = IF r.err THEN "failed"
                   ELSE IF interrupt THEN "interrupted"
                   ELSE IF r.node > statusHeight THEN "rollback" ELSE "rolledback"
    /\ UNCHANGED <<dbVars, lastFlushHash, flushHash, flushRet, nbFlushed,
                   statusHeight, attach, histVars, mpVars, interrupt, view>>

\* s.flush(&BestState{Hash: *statusHash}) after the rollback
RollbackFlush ==
    /\ pc = "rolledback"
    /\ pc' = "flush"
    /\ flushHash' = statusHeight
    /\ flushRet' = "replay"
    /\ UNCHANGED <<dbVars, cacheVars, nbFlushed, statusHeight, node, attach,
                   histVars, mpVars, interrupt, view>>

\* (FlushReturn_NoPoll is the fault-injection variant of FlushReturn: a replay
\* loop that never polls the interrupt channel.)
\* Where the caller of flush goes on when flush returns nil.  The replay loop
\* of InitConsistentState polls the interrupt channel right after the flush of
\* a batch, before it looks whether the tip is reached.
FlushReturn_NoPoll == IF flushRet = "ready" THEN "idle" ELSE flushRet
FlushReturn ==
    IF flushRet \in {"rollforward", "ready"} /\ interrupt THEN "interrupted"
    ELSE IF flushRet = "ready" THEN "idle"
    ELSE flushRet

\* a flush that starts its batches without writing the marker first
FlushBegin_NoMarker ==
    /\ pc = "flush"
    /\ IF flushHash = lastFlushHash /\ flushHash # ZeroHash
       THEN /\ pc' = FlushReturn
            /\ ev' = IF FlushReturn = "interrupted" THEN "interrupted"
                     ELSE IF flushRet = "ready" THEN "initDone"
                     ELSE IF flushRet = "idle" THEN "flushSkipped" ELSE ev
       ELSE /\ pc' = "flushing"
            /\ UNCHANGED ev
    /\ nbFlushed' = 0
    /\ UNCHANGED <<db, marker, journal, tip, cacheVars, flushHash, flushRet,
                   statusHeight, node, attach, killedAt, snap, mpVars, interrupt, view>>

\* flush, up to the first batch: nothing to do when the state was flushed at
\* bestState.Hash, else the marker says a flush is under way from lastFlushHash
FlushBegin ==
    /\ pc = "flush"
    /\ IF flushHash = lastFlushHash /\ flushHash # ZeroHash
       THEN /\ pc' = FlushReturn
            /\ ev' = IF FlushReturn = "interrupted" THEN "interrupted"
                     ELSE IF flushRet = "ready" THEN "initDone"
                     ELSE IF flushRet = "idle" THEN "flushSkipped" ELSE ev
            /\ UNCHANGED marker
       ELSE /\ marker' = [status |-> "FlushOngoing", hash |-> lastFlushHash]
            /\ pc' = "flushing"
            /\ UNCHANGED ev
    /\ nbFlushed' = 0
    /\ UNCHANGED <<db, journal, tip, cacheVars, flushHash, flushRet,
                   statusHeight, node, attach, killedAt, snap, mpVars, interrupt, view>>

\* the entries flushBatch prunes without counting them, and those it writes
Prunable(C) == {o \in DOMAIN C : C[o] = Nil \/ ~C[o].modified}
Modified(C) == DOMAIN C \ Prunable(C)

\* The sets of keys one flushBatch can take out of the cache.  The range over
\* the map meets the keys in any order and stops at the utxoBatchSizeEntries-th
\* modified entry: all keys when fewer are modified, else that many modified
\* keys and whichever prunable keys came before the last of them.
BatchChoices(C) ==
    IF Cardinality(Modified(C)) < utxoBatchSizeEntries
    THEN {DOMAIN C}
    ELSE {M \cup P : M \in {X \in SUBSET Modified(C) :
                                Cardinality(X) = utxoBatchSizeEntries},
                     P \in SUBSET Prunable(C)}

\* a batch that writes its unspent entries and deletes nothing
ApplyBatch_NoDelete(D, C, batch) ==
    [o \in DOMAIN D \cup {x \in batch \cap Modified(C) : ~C[x].spent} |->
        IF o \in batch \cap Modified(C) /\ ~C[o].spent
        THEN DbRecord(C[o]) ELSE D[o]]

\* dbPutUtxoEntries and dbDeleteUtxoEntries of one batch
ApplyBatch(D, C, batch) ==
    LET entriesPut == {o \in batch \cap Modified(C) : ~C[o].spent}
        entriesDelete == {o \in batch \cap Modified(C) : C[o].spent}
    IN [o \in (DOMAIN D \ entriesDelete) \cup entriesPut |->
            IF o \in entriesPut THEN DbRecord(C[o]) ELSE D[o]]

\* one database transaction of the flush loop
FlushBatch ==
    /\ pc = "flushing"
    /\ cachedEntries # <<>>
    /\ \E batch \in BatchChoices(cachedEntries) :
        /\ db' = ApplyBatch(db, cachedEntries, batch)
        /\ cachedEntries' = Restrict(cachedEntries, DOMAIN cachedEntries \ batch)
    /\ nbFlushed' = IF nbFlushed < 2 THEN nbFlushed + 1 ELSE nbFlushed
    /\ UNCHANGED <<marker, journal, tip, lastFlushHash, pc, flushHash, flushRet,
                   statusHeight, node, attach, histVars, mpVars, interrupt, view>>

\* the cache is empty: the marker says the state is consistent at
\* bestState.Hash, and flush returns
FlushEnd ==
    /\ pc = "flushing"
    /\ cachedEntries = <<>>
    /\ marker' = [status |-> "Consistent", hash |-> flushHash]
    /\ lastFlushHash' = flushHash
    /\ pc' = FlushReturn
    /\ ev' = IF FlushReturn = "interrupted" THEN "interrupted"
             ELSE IF flushRet = "ready" THEN "initDone"
             ELSE IF flushRet = "idle" THEN "flushed" ELSE ev
    /\ UNCHANGED <<db, journal, tip, cachedEntries, flushHash, flushRet,
                   nbFlushed, statusHeight, node, attach, killedAt, snap, mpVars, interrupt, view>>

\* InitConsistentState between the flush after the rollback and the replay
\* loop: the log line reads statusNodeNext.height, and statusNodeNext is nil
\* when no block lies above the status block
Replay ==
    /\ pc = "replay"
    /\ IF tip = statusHeight
       THEN pc' = "panic" /\ UNCHANGED node
       ELSE pc' = "rollforward" /\ node' = statusHeight + 1
    /\ UNCHANGED <<dbVars, cacheVars, flushHash, flushRet, nbFlushed,
                   statusHeight, attach, histVars, mpVars, interrupt, view>>

\* rollforwardBatch: connects the blocks at the front of attachNodes
RECURSIVE rollforwardBatch(_, _, _, _)
rollforwardBatch(C, a, n, nbBatchBlocks) ==
    IF a > tip THEN [c |-> C, attach |-> a, node |-> n, err |-> FALSE]
    ELSE LET r == rollForwardBlock(C, db, BlockTable[a], a)
         IN IF r.err THEN [c |-> r.c, attach |-> a, node |-> a, err |-> TRUE]
            ELSE IF nbBatchBlocks + 1 >= utxoBatchSizeBlocks
            THEN [c |-> r.c, attach |-> a + 1, node |-> a, err |-> FALSE]
            ELSE rollforwardBatch(r.c, a + 1, a, nbBatchBlocks + 1)

\* one turn of the replay loop up to its flush; the loop ends after the
\* flush when node is the tip
RollforwardBatch ==
    /\ pc = "rollforward"
    /\ LET r == rollforwardBatch(cachedEntries, attach, node, 0)
       IN /\ cachedEntries' = r.c
          /\ attach' = r.attach
          /\ node' = r.node
          /\ pc' = IF r.err THEN "failed" ELSE "flush"
          /\ flushHash' = IF r.err THEN flushHash ELSE r.node
          /\ flushRet' = IF r.err THEN flushRet
                         ELSE IF r.node = tip THEN "ready" ELSE "rollforward"
    /\ UNCHANGED <<dbVars, lastFlushHash, nbFlushed, statusHeight, histVars, mpVars, interrupt, view>>

\* connect_block on the cache: connectTransactions with the stxos collected
\* and no overwriting, after which the block, its spend journal entry and the
\* best state are durable
ConnectBlockTo(limit) ==
    /\ pc = "idle"
    /\ tip < limit
    /\ LET r == connectTransactions(cachedEntries, db, BlockTable[tip + 1],
                                    tip + 1, TRUE, FALSE)
       IN /\ cachedEntries' = r.c
          /\ IF r.err
             THEN UNCHANGED <<tip, journal>> /\ ev' = "connectFailed"
             ELSE /\ tip' = tip + 1
                  /\ journal' = Append(journal, r.stxos)
                  /\ ev' = "connect"
    /\ snap' = FetchAll
    /\ UNCHANGED <<db, marker, lastFlushHash, callVars, killedAt, mpVars, interrupt, view>>

ConnectBlock == ConnectBlockTo(MaxHeight)

\* totalMemoryUsage() > 0: every key of the map counts 44 bytes, and
\* totalEntryMemory is the sum over the entries the map holds
MemoryInUse(C) == C # <<>>

\* Flush(FlushRequired, best state): calls flush when totalMemoryUsage() is
\* above the threshold 0 and returns nil without doing anything otherwise
Flush ==
    /\ pc = "idle"
    /\ snap' = FetchAll
    /\ IF MemoryInUse(cachedEntries)
       THEN /\ pc' = "flush"
            /\ flushHash' = tip
            /\ flushRet' = "idle"
            /\ ev' = "flushing"
       ELSE /\ ev' = "flushNotRun"
            /\ UNCHANGED <<pc, flushHash, flushRet>>
    /\ UNCHANGED <<dbVars, cacheVars, nbFlushed, statusHeight, node, attach,
                   killedAt, mpVars, interrupt, view>>

\* the outpoints callers look up
FetchProbes == {OutPoint(11, 0), OutPoint(32, 0)}

\* FetchEntry: the lookup caches what the database holds, nil included
FetchEntry(o) ==
    /\ pc = "idle"
    /\ cachedEntries' = getEntry(cachedEntries, db, o).c
    /\ UNCHANGED <<dbVars, lastFlushHash, callVars, histVars, mpVars, interrupt, view>>

\* disconnect_block on the cache, with the stxos of the spend journal
DisconnectBlock ==
    /\ pc = "idle"
    /\ tip > 0
    /\ LET r == disconnectTransactions(cachedEntries, BlockTable[tip], tip,
                                       journal[tip])
       IN /\ cachedEntries' = r.c
          /\ IF r.err
             THEN UNCHANGED <<tip, journal>> /\ ev' = "disconnectFailed"
             ELSE /\ tip' = tip - 1
                  /\ journal' = SubSeq(journal, 1, tip - 1)
                  /\ ev' = IF ev = "connect" THEN "undone" ELSE "disconnect"
    /\ UNCHANGED <<db, marker, lastFlushHash, callVars, killedAt, snap, mpVars, interrupt, view>>

\* InitConsistentState is between two of its steps
RecoveryPending ==
    \/ pc \in {"rollback", "rolledback", "replay", "rollforward"}
    \/ pc \in {"flush", "flushing"} /\ flushRet # "idle"

\* the process is killed: the cache and the call in progress are lost, the
\* database stays as the last committed transaction left it
Kill ==
    /\ pc # "down"
    /\ pc' = "down"
    /\ cachedEntries' = <<>>
    /\ lastFlushHash' = ZeroHash
    /\ NoCall
    /\ interrupt' = FALSE
    /\ killedAt' = IF pc = "interrupted" THEN "interrupt"
                   ELSE IF pc = "flushing" /\ flushRet = "idle"
                   THEN (IF cachedEntries = <<>> THEN "beforeConsistent"
                         ELSE IF nbFlushed = 0 THEN "afterMarker"
                         ELSE "betweenBatches")
                   ELSE IF pc \in {"idle", "flush"} THEN "idle"
                   ELSE "recovery"
    /\ ev' = IF pc = "idle" /\ ev = "flushed" THEN "flushedDown"
             ELSE IF pc = "interrupted" THEN "interruptedDown"
             ELSE "killed"
    /\ view' = <<>>
    /\ UNCHANGED <<dbVars, snap, mpVars>>

\* the interrupt channel is closed while InitConsistentState runs
RaiseInterrupt ==
    /\ RecoveryPending
    /\ ~interrupt
    /\ interrupt' = TRUE
    /\ UNCHANGED <<dbVars, cacheVars, callVars, histVars, mpVars, view>>

\* the mempool stays as constructed while the cache machine runs
CacheInit ==
    /\ UtxoInit
    /\ pool = {}
    /\ orphans = <<>>
    /\ orphansByPrev = <<>>
    /\ outpoints = <<>>
    /\ now = 0
    /\ nextExpireScan = orphanExpireScanInterval
    /\ maxOrphanTxs = 0
    /\ chainUtxos = {}
    /\ last = [op |-> "New", tx |-> 0, err |-> "none", accepted |-> <<>>, n |-> 0]

CacheNext ==
    \/ Start
    \/ RollbackBatch
    \/ RollbackFlush
    \/ FlushBegin
    \/ FlushBatch
    \/ FlushEnd
    \/ Replay
    \/ RollforwardBatch
    \/ ConnectBlock
    \/ Flush
    \/ \E o \in FetchProbes : FetchEntry(o)
    \/ RaiseInterrupt
    \/ Kill

CacheSpec == CacheInit /\ [][CacheNext]_vars

\* The steps of InitConsistentState and of the flushes it calls.
RecoveryStep ==
    \/ RollbackBatch
    \/ RollbackFlush
    \/ Replay
    \/ RollforwardBatch
    \/ (flushRet # "idle" /\ (FlushBegin \/ FlushBatch \/ FlushEnd))

\* ENABLED <<RecoveryStep>>_vars, spelled out from the guards: every step
\* but a turn of the rollback loop changes pc or takes entries out of the
\* cache, and a turn of the rollback loop is a step only if it leaves the
\* loop or changes node or the cache.
RecoveryEnabled ==
    \/ /\ pc = "rollback"
       /\ LET r == rollbackBatch(cachedEntries, node, 0)
          IN r.err \/ interrupt \/ r.node <= statusHeight \/ r.node # node
                   \/ r.c # cachedEntries
    \/ pc \in {"rolledback", "replay", "rollforward"}
    \/ pc \in {"flush", "flushing"} /\ flushRet # "idle"

\* One goroutine runs InitConsistentState from its call to its return and
\* nothing makes it wait, so a step that can be taken is taken unless the
\* process is killed first.  This is WF_vars(RecoveryStep), that is
\* []<>~ENABLED <<RecoveryStep>>_vars \/ []<><<RecoveryStep>>_vars, with the
\* enabling condition written as the state predicate above.
RecoveryFairness == []<>(~RecoveryEnabled) \/ []<><<RecoveryStep>>_vars

RecoverySpec == CacheSpec /\ RecoveryFairness

\* the spend journal after the blocks 1..h, as connecting them one after the
\* other on an empty cache over an empty database collects it
RECURSIVE ChainReplay(_)
ChainReplay(h) ==
    IF h = 0 THEN [c |-> <<>>, journal |-> <<>>]
    ELSE LET p == ChainReplay(h - 1)
             r == connectTransactions(p.c, <<>>, BlockTable[h], h, TRUE, FALSE)
         IN [c |-> r.c, journal |-> Append(p.journal, r.stxos)]

\* A node that was stopped after it flushed at height MaxHeight, and that will
\* see one more block, whose outputs are all unspendable.
TipInit ==
    /\ db = UtxoBucketAt(MaxHeight)
    /\ marker = [status |-> "Consistent", hash |-> MaxHeight]
    /\ journal = ChainReplay(MaxHeight).journal
    /\ tip = MaxHeight
    /\ cachedEntries = <<>>
    /\ lastFlushHash = ZeroHash
    /\ pc = "down"
    /\ flushHash = ZeroHash
    /\ flushRet = "none"
    /\ nbFlushed = 0
    /\ statusHeight = 0
    /\ node = 0
    /\ attach = 0
    /\ interrupt = FALSE
    /\ view = <<>>
    /\ mtx = NoLocks
    /\ totalEntryMemory = 0
    /\ memUnderflow = FALSE
    /\ pennyTotal = 0
    /\ lastPennyUnix = 0
    /\ thr = [p \in Procs |-> IdleThread]
    /\ ev = "none"
    /\ killedAt = "none"
    /\ snap = <<>>
    /\ pool = {}
    /\ orphans = <<>>
    /\ orphansByPrev = <<>>
    /\ outpoints = <<>>
    /\ now = 0
    /\ nextExpireScan = orphanExpireScanInterval
    /\ maxOrphanTxs = 0
    /\ chainUtxos = {}
    /\ last = [op |-> "New", tx |-> 0, err |-> "none", accepted |-> <<>>, n |-> 0]

TipNext ==
    \/ Start
    \/ RollbackBatch
    \/ RollbackFlush
    \/ FlushBegin
    \/ FlushBatch
    \/ FlushEnd
    \/ Replay
    \/ RollforwardBatch
    \/ ConnectBlockTo(MaxHeight + 1)
    \/ Flush
    \/ \E o \in FetchProbes : FetchEntry(o)
    \/ Kill

TipSpec == TipInit /\ [][TipNext]_vars

\* a node that also disconnects blocks (a reorganisation), without being killed
ReorgNext ==
    \/ Start
    \/ ConnectBlock
    \/ DisconnectBlock
    \/ Flush
    \/ FlushBegin
    \/ FlushBatch
    \/ FlushEnd
    \/ \E o \in FetchProbes : FetchEntry(o)

ReorgSpec == CacheInit /\ [][ReorgNext]_vars

\* A node that connects and disconnects blocks (a reorganisation), flushes,
\* is killed and restarted: the marker can name a block that is no longer on
\* the best chain.
StaleHeight == 2

StaleNext ==
    \/ Start
    \/ RollbackBatch
    \/ RollbackFlush
    \/ FlushBegin
    \/ FlushBatch
    \/ FlushEnd
    \/ Replay
    \/ RollforwardBatch
    \/ ConnectBlockTo(StaleHeight)
    \/ DisconnectBlock
    \/ Flush
    \/ Kill

StaleSpec == CacheInit /\ [][StaleNext]_vars

-----------------------------------------------------------------------------
(* UtxoViewpoint as a utxoView, and the views callers build on the cache.   *)
(* V is view.entries.                                                       *)

\* UtxoEntry.Spend
Spend(entry) ==
    IF entry.spent THEN entry
    ELSE [entry EXCEPT !.spent = TRUE, !.modified = TRUE]

\* UtxoViewpoint.spendEntry: a missing entry is replaced by putIfNil in the
\* map first; entry.Spend() on a nil pointer (putIfNil, or the nil FetchTxView
\* may have stored) is a nil dereference
viewSpendEntry(R, o, putIfNil) ==
    LET entry == IF o \in DOMAIN R.v THEN R.v[o] ELSE putIfNil
    IN IF entry = Nil
       THEN [R EXCEPT !.panic = TRUE,
                      !.v = IF o \in DOMAIN R.v THEN R.v ELSE Put(R.v, o, Nil)]
       ELSE [R EXCEPT !.v = Put(R.v, o, Spend(entry))]

\* UtxoViewpoint.addTxOut: an existing entry is reused, every field and all
\* the flags are set anew
viewAddTxOut(V, o, isCoinBase, blockHeight) ==
    Put(V, o, UtxoEntry(TxOutValue(o), TxOutPkScript(o), blockHeight,
                        isCoinBase, FALSE, TRUE, FALSE))

\* the outputs of a block in the order addTxOuts meets them, and the inputs
\* of its transactions in the order spendTransactionInputs meets them
RECURSIVE BlockOutPoints(_, _)
BlockOutPoints(block, i) ==
    IF i > Len(block) THEN <<>>
    ELSE [j \in 1..block[i].nOut |->
             [o |-> OutPoint(block[i].hash, j - 1), coinbase |-> IsCoinBase(block[i])]]
         \o BlockOutPoints(block, i + 1)
RECURSIVE BlockInputs(_, _)
BlockInputs(block, i) ==
    IF i > Len(block) THEN <<>>
    ELSE block[i].ins \o BlockInputs(block, i + 1)

\* addTxOuts on a view, for all the transactions of a block: addEntry of a
\* view stores the entry as it is, whatever overwrite says
RECURSIVE viewAddTxOuts(_, _, _, _, _)
viewAddTxOuts(V, outs, blockHeight, overwrite, k) ==
    IF k > Len(outs) THEN V
    ELSE viewAddTxOuts(
            Put(V, outs[k].o,
                UtxoEntry(TxOutValue(outs[k].o), TxOutPkScript(outs[k].o),
                          blockHeight, outs[k].coinbase, FALSE, TRUE, ~overwrite)),
            outs, blockHeight, overwrite, k + 1)

\* spendTransactionInputs on a view: stops at the first input the view misses
RECURSIVE viewSpendInputs(_, _, _)
viewSpendInputs(R, ins, k) ==
    IF k > Len(ins) \/ R.err \/ R.panic THEN R
    ELSE IF ins[k] \notin DOMAIN R.v \/ R.v[ins[k]] = Nil
    THEN [R EXCEPT !.err = TRUE]
    ELSE viewSpendInputs(viewSpendEntry(R, ins[k], R.v[ins[k]]), ins, k + 1)

\* connectTransactions(view, block, nil, overwrite)
viewConnectTransactions(V, block, blockHeight, overwrite) ==
    viewSpendInputs(
        [v |-> viewAddTxOuts(V, BlockOutPoints(block, 1), blockHeight, overwrite, 1),
         err |-> FALSE, panic |-> FALSE],
        BlockInputs(block, 1), 1)

\* disconnectTransactions on a view, first pass: the inputs from the last to
\* the first, each restored from its stxo as a modified entry
RECURSIVE viewRestoreInputs(_, _, _, _)
viewRestoreInputs(V, ins, stxos, k) ==
    IF k < 1 THEN V
    ELSE viewRestoreInputs(
            Put(V, ins[k], UtxoEntry(stxos[k].Amount, stxos[k].PkScript,
                                     stxos[k].Height, stxos[k].IsCoinBase,
                                     FALSE, TRUE, FALSE)),
            ins, stxos, k - 1)

\* second pass: every output of the block is spent, an entry without the
\* modified flag being passed along for the outputs the view does not hold
RECURSIVE viewSpendOutputs(_, _, _, _)
viewSpendOutputs(R, outs, blockHeight, k) ==
    IF k > Len(outs) \/ R.panic THEN R
    ELSE viewSpendOutputs(
            viewSpendEntry(R, outs[k].o,
                UtxoEntry(TxOutValue(outs[k].o), TxOutPkScript(outs[k].o),
                          blockHeight, outs[k].coinbase, FALSE, FALSE, FALSE)),
            outs, blockHeight, k + 1)

\* disconnectTransactions(view, block, stxos)
viewDisconnectTransactions(V, block, blockHeight, stxos) ==
    IF Len(stxos) # countSpentOutputs(block, 1)
    THEN [v |-> V, err |-> TRUE, panic |-> FALSE]
    ELSE viewSpendOutputs(
            [v |-> viewRestoreInputs(V, BlockInputs(block, 1), stxos, Len(stxos)),
             err |-> FALSE, panic |-> FALSE],
            BlockOutPoints(block, 1), blockHeight, 1)

\* UtxoViewpoint.prune: spent modified entries and nil entries are deleted,
\* and the modified bit of every other entry is flipped (packedFlags ^=
\* tfModified)
prune(V) ==
    [o \in {x \in DOMAIN V : V[x] # Nil /\ ~(V[x].modified /\ V[x].spent)} |->
        [V[o] EXCEPT !.modified = ~@]]

commitEntry_Overwrite(C, o, entry) ==
    IF entry = Nil \/ (~entry.modified /\ ~entry.fresh) THEN C
    ELSE IF entry.spent
         THEN spendEntry(C, o, IF Cached(C, o) = Nil THEN entry ELSE Cached(C, o))
         ELSE addEntry(C, o, entry, TRUE)

\* Commit, the turn of its loop for one entry of the view
commitEntry(C, o, entry) ==
    IF entry = Nil \/ (~entry.modified /\ ~entry.fresh) THEN C
    ELSE LET ourEntry == IF Cached(C, o) = Nil THEN entry ELSE Cached(C, o)
         IN IF entry.spent THEN spendEntry(C, o, ourEntry)
            ELSE IF ourEntry.spent THEN addEntry(C, o, entry, TRUE)
            ELSE addEntry(C, o, ourEntry, FALSE)

\* Commit without its prune: the turns touch one key of the cache each, so
\* the order in which the map yields the entries makes no difference
RECURSIVE commitEntries(_, _, _)
commitEntries(C, V, todo) ==
    IF todo = {} THEN C
    ELSE LET o == CHOOSE x \in todo : TRUE
         IN commitEntries(commitEntry(C, o, V[o]), V, todo \ {o})

\* the blocks that are connected to and disconnected from views (FetchTxView
\* is also called for the transactions of the block after them), and the
\* height the chain under the views reaches
ViewBlocks == 1
ViewHeight == 1

\* FetchTxView(tx): a new view with the inputs and the outputs of tx as the
\* cache has them, nil included
FetchTxView(k, i) ==
    /\ pc = "idle"
    /\ LET tx == BlockTable[k][i]
           wanted == Range(tx.ins) \cup TxOutPointsOf(tx)
       IN /\ view' = [o \in wanted |-> getEntry(cachedEntries, db, o).e]
          /\ cachedEntries' =
                [o \in DOMAIN cachedEntries \cup wanted |->
                    getEntry(cachedEntries, db, o).e]
    /\ UNCHANGED <<dbVars, lastFlushHash, callVars, interrupt, histVars, mpVars>>

\* the outcome of a call that changes the view only
ViewReturns(R) ==
    /\ view' = R.v
    /\ pc' = IF R.panic THEN "panic" ELSE pc
    /\ ev' = IF R.panic THEN "viewPanic" ELSE IF R.err THEN "viewFailed" ELSE "view"
    /\ UNCHANGED <<dbVars, cacheVars, flushHash, flushRet, nbFlushed, statusHeight,
                   node, attach, interrupt, killedAt, snap, mpVars>>

\* connectTransactions(view, block k, nil, false)
ViewConnect(k) ==
    /\ pc = "idle"
    /\ ViewReturns(viewConnectTransactions(view, BlockTable[k], k, FALSE))

\* disconnectTransactions(view, block k, the stxos of block k)
ViewDisconnect(k) ==
    /\ pc = "idle"
    /\ ViewReturns(viewDisconnectTransactions(view, BlockTable[k], k,
                                             ChainReplay(k).journal[k]))

\* view.AddTxOut(tx, idx, height) for the output o
ViewAddTxOut(o) ==
    /\ pc = "idle"
    /\ ViewReturns([v |-> viewAddTxOut(view, o, IsCoinBaseOutPoint(o), CreatedAt(o)),
                    err |-> FALSE, panic |-> FALSE])

\* view.spendEntry(o, entry) as spendTransactionInputs calls it, with the
\* entry the view holds
ViewSpend(o) ==
    /\ pc = "idle"
    /\ o \in DOMAIN view
    /\ ViewReturns(viewSpendEntry([v |-> view, err |-> FALSE, panic |-> FALSE],
                                  o, view[o]))

\* utxoCache.Commit(view), which ends with view.prune()
Commit ==
    /\ pc = "idle"
    /\ cachedEntries' = commitEntries(cachedEntries, view, DOMAIN view)
    /\ view' = prune(view)
    /\ ev' = "commit"
    /\ UNCHANGED <<dbVars, lastFlushHash, callVars, interrupt, killedAt, snap, mpVars>>

ViewOutPoints ==
    {o \in AllOutPoints : CreatedAt(o) <= ViewBlocks}

ViewNext ==
    \/ Start
    \/ ConnectBlockTo(ViewHeight)
    \/ Flush
    \/ FlushBegin
    \/ FlushBatch
    \/ FlushEnd
    \/ \E k \in 1..(ViewBlocks + 1) : \E i \in 1..Len(BlockTable[k]) : FetchTxView(k, i)
    \/ \E k \in 1..ViewBlocks : ViewConnect(k)
    \/ \E k \in 1..ViewBlocks : ViewDisconnect(k)
    \/ \E o \in ViewOutPoints : ViewAddTxOut(o)
    \/ \E o \in ViewOutPoints : ViewSpend(o)
    \/ Commit

ViewSpec == CacheInit /\ [][ViewNext]_vars

-----------------------------------------------------------------------------
(* Views and the cache as their callers may use them: a view that lacks    *)
(* the inputs of the block connected to it, an output added at a height    *)
(* the caller chooses, an outpoint spent that has no entry.                *)

\* the blocks connected to views, and the height of the chain under them
ApiBlocks == 2
ApiHeight == 1

\* UtxoViewpoint.LookupEntry: view.entries[outpoint], nil for a missing key
LookupEntry_HideSpent(V, o) ==
    IF o \in DOMAIN V /\ V[o] # Nil /\ ~V[o].spent THEN V[o] ELSE Nil

LookupEntry(V, o) == IF o \in DOMAIN V THEN V[o] ELSE Nil

\* view.AddTxOut(tx, idx, blockHeight) for the output o, at the height of
\* its block or one block later
ViewAddTxOutAt(o, late) ==
    /\ pc = "idle"
    /\ ViewReturns([v |-> viewAddTxOut(view, o, IsCoinBaseOutPoint(o),
                                       CreatedAt(o) + (IF late THEN 1 ELSE 0)),
                    err |-> FALSE, panic |-> FALSE])

\* view.spendEntry(o, nil) for an outpoint the view has no entry for
ViewSpendMissing(o) ==
    /\ pc = "idle"
    /\ LookupEntry(view, o) = Nil
    /\ ViewReturns(viewSpendEntry([v |-> view, err |-> FALSE, panic |-> FALSE], o, Nil))

\* s.spendEntry(o, nil) for an outpoint the cache has no entry for: the call
\* returns nil
CacheSpendMissing(o) ==
    /\ pc = "idle"
    /\ Cached(cachedEntries, o) = Nil
    /\ cachedEntries' = spendEntry(cachedEntries, o, Nil)
    /\ ev' = "spendReturnedNil"
    /\ UNCHANGED <<dbVars, lastFlushHash, callVars, interrupt, view, killedAt, snap, mpVars>>

ApiOutPoints == {o \in AllOutPoints : CreatedAt(o) <= ApiHeight}

ApiNext ==
    \/ Start
    \/ ConnectBlockTo(ApiHeight)
    \/ \E k \in 1..ApiBlocks : \E i \in 1..Len(BlockTable[k]) : FetchTxView(k, i)
    \/ \E k \in 1..ApiBlocks : ViewConnect(k)
    \/ \E o \in ApiOutPoints, late \in BOOLEAN : ViewAddTxOutAt(o, late)
    \/ \E o \in ApiOutPoints : ViewSpend(o)
    \/ \E o \in ApiOutPoints : ViewSpendMissing(o)
    \/ \E o \in ApiOutPoints : CacheSpendMissing(o)
    \/ Commit

ApiSpec == CacheInit /\ [][ApiNext]_vars

-----------------------------------------------------------------------------
(* A database whose transactions may fail.  s.db.Update rolls the          *)
(* transaction back and returns the error, and flush returns it to its     *)
(* caller, which may call Flush again.                                     *)

\* the height the chain reaches in this machine
IoHeight == 2

\* flush returns the error of a failed s.db.Update: the one that writes the
\* FlushOngoing marker, the one of a batch (flushBatch has taken the entries
\* of the batch out of s.cachedEntries before it writes them), or the one that
\* writes the Consistent marker
FlushFails ==
    /\ flushRet = "idle"
    /\ \/ /\ pc = "flush"
          /\ ~(flushHash = lastFlushHash /\ flushHash # ZeroHash)
          /\ UNCHANGED cachedEntries
       \/ /\ pc = "flushing"
          /\ cachedEntries = <<>>
          /\ UNCHANGED cachedEntries
       \/ /\ pc = "flushing"
          /\ cachedEntries # <<>>
          /\ \E batch \in BatchChoices(cachedEntries) :
                cachedEntries' = Restrict(cachedEntries, DOMAIN cachedEntries \ batch)
    /\ pc' = "idle"
    /\ ev' = "flushFailed"
    /\ UNCHANGED <<dbVars, lastFlushHash, flushHash, flushRet, nbFlushed,
                   statusHeight, node, attach, killedAt, snap, mpVars, interrupt, view>>

IoNext ==
    \/ Start
    \/ ConnectBlockTo(IoHeight)
    \/ Flush
    \/ FlushBegin
    \/ FlushBatch
    \/ FlushEnd
    \/ FlushFails

IoSpec == CacheInit /\ [][IoNext]_vars

\* The node of StaleSpec on a database whose transactions can fail: a flush
\* that returned an error leaves the marker FlushOngoing behind while the node
\* goes on connecting and disconnecting blocks.
FaultNext ==
    \/ StaleNext
    \/ FlushFails

FaultSpec == CacheInit /\ [][FaultNext]_vars

-----------------------------------------------------------------------------
(* The memory accounting of the cache.  Every statement that writes         *)
(* s.cachedEntries or the pkScript of a cached entry is followed together   *)
(* with the statement that adjusts s.totalEntryMemory.  S is the cache with *)
(* its counter: c is s.cachedEntries, mem is s.totalEntryMemory and under   *)
(* says that a subtraction has wrapped.  The other machines leave the       *)
(* counter alone: what they need of totalMemoryUsage() is MemoryInUse.      *)

\* baseUtxoEntrySizeWithoutTokenData + baseUtxoEntryTokenDataSize
baseEntrySize == 40 + 88

\* memoryUsage: 0 for the nil entry, else the fixed size plus len(pkScript)
memoryUsage(e) == IF e = Nil THEN 0 ELSE baseEntrySize + Len(e.pkScript)

\* totalEntryMemory is a uint64; the counter of the model wraps at 2^16,
\* far above what the entries of the chain can add up to
MemModulus == 65536
MemSub(S, n) ==
    [S EXCEPT !.mem = (S.mem - n) % MemModulus, !.under = S.under \/ n > S.mem]
MemAdd(S, n) == [S EXCEPT !.mem = (S.mem + n) % MemModulus]

\* fetchAndCacheEntry
MemFetchAndCacheEntry(S, D, o) ==
    LET entry == dbFetchUtxoEntry(D, o)
    IN MemAdd([S EXCEPT !.c = Put(S.c, o, entry)], memoryUsage(entry))

\* getEntry: s the cache after the call, e the entry returned
MemGetEntry(S, D, o) ==
    IF o \in DOMAIN S.c THEN [s |-> S, e |-> S.c[o]]
    ELSE [s |-> MemFetchAndCacheEntry(S, D, o), e |-> dbFetchUtxoEntry(D, o)]

\* addEntry
MemAddEntry(S, o, entry, overwrite) ==
    LET cachedEntry == Cached(S.c, o)
    IN IF ~overwrite /\ cachedEntry # Nil /\ ~cachedEntry.spent
       THEN S
       ELSE MemAdd(MemSub([S EXCEPT !.c = addEntry(S.c, o, entry, overwrite)],
                          memoryUsage(cachedEntry)),
                   memoryUsage(entry))

\* a spendEntry that does not charge the entry again after it has dropped
\* its pkScript
MemSpendEntry_NoRecharge(S, o, addIfNil) ==
    LET added == Cached(S.c, o) = Nil /\ addIfNil # Nil
        S1 == IF added THEN MemAddEntry(S, o, addIfNil, FALSE) ELSE S
        entry == Cached(S1.c, o)
    IN IF entry = Nil \/ entry.spent
       THEN S1
       ELSE IF entry.fresh
       THEN MemSub([S1 EXCEPT !.c = Put(S1.c, o, Nil)], memoryUsage(entry))
       ELSE MemSub([S1 EXCEPT !.c = Put(S1.c, o,
                                        [entry EXCEPT !.spent = TRUE, !.modified = TRUE,
                                                      !.pkScript = NoScript])],
                   memoryUsage(entry))

\* spendEntry
MemSpendEntry(S, o, addIfNil) ==
    LET added == Cached(S.c, o) = Nil /\ addIfNil # Nil
        S1 == IF added THEN MemAddEntry(S, o, addIfNil, FALSE) ELSE S
        entry == Cached(S1.c, o)
    IN IF entry = Nil \/ entry.spent
       THEN S1
       ELSE IF entry.fresh
       THEN MemSub([S1 EXCEPT !.c = Put(S1.c, o, Nil)], memoryUsage(entry))
       ELSE LET spent == [entry EXCEPT !.spent = TRUE, !.modified = TRUE,
                                       !.pkScript = NoScript]
            IN MemAdd(MemSub([S1 EXCEPT !.c = Put(S1.c, o, spent)],
                             memoryUsage(entry)),
                      memoryUsage(spent))

\* connectTransactions on the cache: addEntry for every output of the block
\* that is not unspendable, then getEntry and spendEntry for every input
RECURSIVE MemAddTxOuts(_, _, _, _)
MemAddTxOuts(S, outs, blockHeight, k) ==
    IF k > Len(outs) THEN S
    ELSE MemAddTxOuts(
            MemAddEntry(S, outs[k].o,
                        UtxoEntry(TxOutValue(outs[k].o), TxOutPkScript(outs[k].o),
                                  blockHeight, outs[k].coinbase, FALSE, TRUE, TRUE),
                        FALSE),
            outs, blockHeight, k + 1)

RECURSIVE MemSpendInputs(_, _, _, _)
MemSpendInputs(S, D, ins, k) ==
    IF k > Len(ins) THEN S
    ELSE LET g == MemGetEntry(S, D, ins[k])
         IN IF g.e = Nil THEN g.s
            ELSE MemSpendInputs(MemSpendEntry(g.s, ins[k], g.e), D, ins, k + 1)

MemConnectTransactions(S, D, block, blockHeight) ==
    MemSpendInputs(MemAddTxOuts(S, BlockOutPoints(block, 1), blockHeight, 1),
                   D, BlockInputs(block, 1), 1)

\* the sum of memoryUsage() over the entries under the keys K of C
RECURSIVE EntryMemory(_, _)
EntryMemory(C, K) ==
    IF K = {} THEN 0
    ELSE LET o == CHOOSE x \in K : TRUE
         IN memoryUsage(C[o]) + EntryMemory(C, K \ {o})

\* the cache of the state, with its counter
MemCache == [c |-> cachedEntries, mem |-> totalEntryMemory, under |-> memUnderflow]

SetMemCache(S) ==
    /\ cachedEntries' = S.c
    /\ totalEntryMemory' = S.mem
    /\ memUnderflow' = S.under

\* what a call on the cache alone leaves as it is
MemUnchanged ==
    UNCHANGED <<lastFlushHash, callVars, interrupt, view, killedAt, pool, orphans,
                orphansByPrev, outpoints, nextExpireScan, maxOrphanTxs, chainUtxos,
                now, last, mtx, thr, rateVars>>

\* the height the chain reaches, and the outpoints the calls are made for:
\* the output of block 1 that block 2 spends and an output of block 2 that
\* is spent in its own block
MemHeight == 2
MemOutPoints == {OutPoint(11, 0), OutPoint(22, 0)}

\* connect_block on the cache
MemConnectBlock ==
    /\ pc = "idle"
    /\ tip < MemHeight
    /\ LET r == connectTransactions(cachedEntries, db, BlockTable[tip + 1],
                                    tip + 1, TRUE, FALSE)
       IN /\ ~r.err
          /\ journal' = Append(journal, r.stxos)
    /\ SetMemCache(MemConnectTransactions(MemCache, db, BlockTable[tip + 1], tip + 1))
    /\ tip' = tip + 1
    /\ ev' = "connect"
    /\ snap' = FetchAll
    /\ UNCHANGED <<db, marker>>
    /\ MemUnchanged

\* FetchEntry(o)
MemFetchEntry(o) ==
    /\ pc = "idle"
    /\ SetMemCache(MemGetEntry(MemCache, db, o).s)
    /\ ev' = "fetch"
    /\ UNCHANGED <<dbVars, snap>>
    /\ MemUnchanged

\* addEntry(o, entry, overwrite) as disconnectTransactions and Commit call
\* it: an unspent entry of the output, with the flags of a restored stxo or
\* of a view entry
MemAddEntryCall(o, modified, fresh, overwrite) ==
    /\ pc = "idle"
    /\ SetMemCache(MemAddEntry(MemCache, o,
                               UtxoEntry(TxOutValue(o), TxOutPkScript(o), CreatedAt(o),
                                         IsCoinBaseOutPoint(o), FALSE, modified, fresh),
                               overwrite))
    /\ ev' = "addEntry"
    /\ UNCHANGED <<dbVars, snap>>
    /\ MemUnchanged

\* spendEntry(o, addIfNil) as disconnectTransactions and Commit call it: with
\* a new unspent entry of the output, or with the clone of a spent view entry
MemSpendEntryCall(o, spent) ==
    /\ pc = "idle"
    /\ SetMemCache(MemSpendEntry(MemCache, o,
                                 UtxoEntry(TxOutValue(o), TxOutPkScript(o), CreatedAt(o),
                                           IsCoinBaseOutPoint(o), spent, spent, FALSE)))
    /\ ev' = "spendEntry"
    /\ UNCHANGED <<dbVars, snap>>
    /\ MemUnchanged

\* one database transaction of the flush loop: every entry flushBatch takes
\* out of the map is taken off the counter
MemFlushBatch ==
    /\ pc = "flushing"
    /\ cachedEntries # <<>>
    /\ \E batch \in BatchChoices(cachedEntries) :
        /\ db' = ApplyBatch(db, cachedEntries, batch)
        /\ SetMemCache(MemSub([MemCache EXCEPT
                                  !.c = Restrict(cachedEntries, DOMAIN cachedEntries \ batch)],
                              EntryMemory(cachedEntries, batch)))
    /\ nbFlushed' = IF nbFlushed < 2 THEN nbFlushed + 1 ELSE nbFlushed
    /\ UNCHANGED <<marker, journal, tip, lastFlushHash, pc, flushHash, flushRet,
                   statusHeight, node, attach, histVars, interrupt, view, pool,
                   orphans, orphansByPrev, outpoints, nextExpireScan, maxOrphanTxs,
                   chainUtxos, now, last, mtx, thr, rateVars>>

MemNext ==
    \/ Start
    \/ MemConnectBlock
    \/ \E o \in MemOutPoints : MemFetchEntry(o)
    \/ \E o \in MemOutPoints, modified, fresh, overwrite \in BOOLEAN :
            MemAddEntryCall(o, modified, fresh, overwrite)
    \/ \E o \in MemOutPoints, spent \in BOOLEAN : MemSpendEntryCall(o, spent)
    \/ Flush
    \/ FlushBegin
    \/ MemFlushBatch
    \/ FlushEnd

MemSpec == CacheInit /\ [][MemNext]_vars

-----------------------------------------------------------------------------
(* The cache under concurrent callers.  BlockChain.FetchUtxoEntry and       *)
(* BlockChain.FetchUtxoView take b.chainLock for reading and then s.mtx.   *)
(* Commit takes no lock itself ("should be called with the state lock      *)
(* held"): the block connector that calls it holds b.chainLock for         *)
(* writing, as the chain does around connectTransactions and Commit.       *)

\* the height the chain reaches in this machine
ChainLockHeight == 2

\* what FetchEntry answers for every outpoint when the cache is C
ObservedIn(C) == [o \in AllOutPoints |-> getEntry(C, db, o).e]

\* (fault-injection variant: a reader that does not wait for the writer)
ChainRLock_NoWait(p) ==
    mtx' = [mtx EXCEPT !.chain.r = @ \cup {p}]

\* b.chainLock.RLock()
ChainRLock(p) ==
    /\ mtx.chain.w = None
    /\ mtx' = [mtx EXCEPT !.chain.r = @ \cup {p}]

\* b.chainLock.Lock(), taken by the caller of connectTransactions and Commit
ChainLock(p) ==
    /\ mtx.chain.w = None /\ mtx.chain.r = {}
    /\ mtx' = [mtx EXCEPT !.chain.w = p]

ChainLockUnchanged == UNCHANGED <<memVars, rateVars, db, marker, journal, lastFlushHash, callVars,
                                  interrupt, histVars, pool, orphans, orphansByPrev,
                                  outpoints, nextExpireScan, maxOrphanTxs,
                                  chainUtxos, now, last>>

\* the block connector takes the chain lock, loads the inputs of block
\* tip + 1 into a view and runs connectTransactions on the view
ConnectEnter(p) ==
    /\ pc = "idle" /\ thr[p].pc = "idle"
    /\ tip < ChainLockHeight
    /\ ChainLock(p)
    /\ LET block == BlockTable[tip + 1]
           wanted == Range(BlockInputs(block, 1))
           V0 == [o \in wanted |-> getEntry(cachedEntries, db, o).e]
           R == viewConnectTransactions(V0, block, tip + 1, FALSE)
       IN /\ cachedEntries' = [o \in DOMAIN cachedEntries \cup wanted |->
                                    getEntry(cachedEntries, db, o).e]
          /\ view' = R.v
          /\ thr' = [thr EXCEPT ![p] =
                        [IdleThread EXCEPT
                            !.pc = "commit", !.op = "Commit",
                            !.err = IF R.err \/ R.panic THEN "failed" ELSE "none",
                            !.todo = IF R.err \/ R.panic THEN {} ELSE DOMAIN R.v,
                            !.pre = ObservedIn(cachedEntries)]]
    /\ UNCHANGED tip
    /\ ChainLockUnchanged

\* Commit: one turn of the range over view.Entries()
CommitEntry(p) ==
    /\ thr[p].pc = "commit"
    /\ \E o \in thr[p].todo :
            /\ cachedEntries' = commitEntry(cachedEntries, o, view[o])
            /\ thr' = [thr EXCEPT ![p].todo = @ \ {o}]
    /\ UNCHANGED <<mtx, view, tip>>
    /\ ChainLockUnchanged

\* Commit: view.prune() after the last entry; the block is connected and the
\* connector releases the chain lock
ConnectLeave(p) ==
    /\ thr[p].pc = "commit" /\ thr[p].todo = {}
    /\ mtx.chain.w = p
    /\ mtx' = [mtx EXCEPT !.chain.w = None]
    /\ view' = prune(view)
    /\ tip' = IF thr[p].err = "none" THEN tip + 1 ELSE tip
    /\ thr' = [thr EXCEPT ![p] = IdleThread]
    /\ UNCHANGED cachedEntries
    /\ ChainLockUnchanged

\* BlockChain.FetchUtxoEntry(o) or BlockChain.FetchUtxoView(tx i of block k):
\* b.chainLock.RLock()
FetchEnter(p, op, o, k, i) ==
    /\ pc = "idle" /\ thr[p].pc = "idle"
    /\ ChainRLock(p)
    /\ thr' = [thr EXCEPT ![p] =
                [IdleThread EXCEPT !.pc = "rlocked", !.op = op, !.out = o,
                                   !.k = k, !.tx = i]]
    /\ UNCHANGED <<cachedEntries, view, tip>>
    /\ ChainLockUnchanged

\* utxoCache.FetchEntry / utxoCache.FetchTxView: s.mtx.Lock()
FetchLock(p) ==
    /\ thr[p].pc = "rlocked"
    /\ mtx.cache = None
    /\ mtx' = [mtx EXCEPT !.cache = p]
    /\ thr' = [thr EXCEPT ![p].pc = "reading"]
    /\ UNCHANGED <<cachedEntries, view, tip>>
    /\ ChainLockUnchanged

\* the lookups of the call (getEntry caches what it reads from the
\* database), s.mtx.Unlock() and b.chainLock.RUnlock()
FetchLeave(p) ==
    /\ thr[p].pc = "reading"
    /\ LET tx == BlockTable[thr[p].k][thr[p].tx]
           wanted == IF thr[p].op = "FetchUtxoEntry" THEN {thr[p].out}
                     ELSE Range(tx.ins) \cup TxOutPointsOf(tx)
       IN cachedEntries' = [o \in DOMAIN cachedEntries \cup wanted |->
                                getEntry(cachedEntries, db, o).e]
    /\ mtx' = [mtx EXCEPT !.cache = None, !.chain.r = @ \ {p}]
    /\ thr' = [thr EXCEPT ![p] = IdleThread]
    /\ UNCHANGED <<view, tip>>
    /\ ChainLockUnchanged

ChainLockOutPoints ==
    {o \in AllOutPoints : CreatedAt(o) <= ChainLockHeight}

ChainLockNext ==
    \/ Start
    \/ \E p \in Procs : ConnectEnter(p)
    \/ \E p \in Procs : CommitEntry(p)
    \/ \E p \in Procs : ConnectLeave(p)
    \/ \E p \in Procs, o \in ChainLockOutPoints : FetchEnter(p, "FetchUtxoEntry", o, 1, 1)
    \/ \E p \in Procs, k \in 1..ChainLockHeight :
            \E i \in 1..Len(BlockTable[k]) :
                FetchEnter(p, "FetchUtxoView", <<0, 0>>, k, i)
    \/ \E p \in Procs : FetchLock(p)
    \/ \E p \in Procs : FetchLeave(p)

ChainLockSpec == CacheInit /\ [][ChainLockNext]_vars

-----------------------------------------------------------------------------
(* Properties of the utxo cache, checked under CacheSpec and ReorgSpec *)

\* the values FetchEntry can hand out, flags the caller cannot rely on left out
Absent == [absent |-> TRUE]

\* what a caller reads off a returned entry, spent status included
Seen(e) ==
    IF e = Nil THEN Absent
    ELSE [amount |-> e.amount, pkScript |-> e.pkScript,
          blockHeight |-> e.blockHeight, coinbase |-> e.coinbase,
          spent |-> e.spent]

\* the same with a spent entry read as no entry
Unspent(e) ==
    IF e = Nil \/ e.spent THEN Absent
    ELSE [amount |-> e.amount, pkScript |-> e.pkScript,
          blockHeight |-> e.blockHeight, coinbase |-> e.coinbase]

\* the marker and the utxo bucket a run leaves whose flush at the tip was
\* never interrupted
DurableAtTip ==
    /\ db = UtxoBucketAt(tip)
    /\ marker = [status |-> "Consistent", hash |-> tip]

\* C2: after connected blocks and a flush killed at any point, a restart that
\* runs InitConsistentState(tip) to completion leaves the durable utxo set and
\* the marker Consistent(tip) that a run with an uninterrupted flush leaves.
C2_RecoveryMatchesUninterrupted ==
    ev \in {"flushed", "initDone", "roundTrip"} => DurableAtTip

\* recovery completed after a kill between two batches of a flush of two
\* blocks or more
C2_Witness ==
    /\ ev = "initDone"
    /\ killedAt = "betweenBatches"
    /\ tip >= 2
    /\ db = UtxoBucketAt(tip)

\* the same after a kill right after the FlushOngoing marker was written, and
\* right before the Consistent marker is
C2_WitnessAfterMarker ==
    ev = "initDone" /\ killedAt = "afterMarker" /\ tip >= 2
C2_WitnessBeforeConsistent ==
    ev = "initDone" /\ killedAt = "beforeConsistent" /\ tip >= 2

\* C3: whenever the persisted marker is Consistent(h), the durable utxo set is
\* exactly the set of outputs unspent after the best-chain blocks through h.
C3_ConsistentMarkerExact ==
    marker.status = "Consistent" => db = UtxoBucketAt(marker.hash)

\* C4 as stated: after connect_block calls, a completed Flush and a restart,
\* FetchEntry returns for every outpoint the value it returned right before
\* the flush: absent, or the same amount, script, height, coinbase and spent
\* status.
C4_FlushRoundTripExact ==
    ev = "roundTrip" =>
        \A o \in AllOutPoints : Seen(FetchValue(o)) = Seen(snap[o])

\* C4: after connect_block calls, a completed Flush and a restart, FetchEntry
\* returns for every outpoint what it returned right before the flush, a spent
\* entry and no entry being the same answer: an unspent entry comes back with
\* the same amount, script, height and coinbase flag, anything else comes
\* back absent or spent.
C4_FlushRoundTripUnspent ==
    ev = "roundTrip" =>
        \A o \in AllOutPoints : Unspent(FetchValue(o)) = Unspent(snap[o])

\* a round trip in which the flush met an unspent entry and a spent one
C4_Witness ==
    /\ ev = "roundTrip"
    /\ \E o \in AllOutPoints : snap[o] # Nil /\ snap[o].spent /\ FetchValue(o) = Nil
    /\ \E o \in AllOutPoints : snap[o] # Nil /\ ~snap[o].spent /\ FetchValue(o) # Nil

\* C5: connecting a block on the cache with its stxos collected and then
\* disconnecting it with those stxos leaves FetchEntry of every outpoint with
\* the same existence/unspent status, amount, script, height and coinbase
\* flag as before the connect.
C5_ConnectDisconnectInverse ==
    ev = "undone" =>
        \A o \in AllOutPoints : Unspent(FetchValue(o)) = Unspent(snap[o])

\* a block with intra-block spends connected and disconnected
C5_Witness ==
    /\ ev = "undone"
    /\ tip \in {1, 2}
    /\ \A o \in AllOutPoints : Unspent(FetchValue(o)) = Unspent(snap[o])

-----------------------------------------------------------------------------
(* Properties of the mempool, checked under Spec *)

\* C1: in every reachable state, each input of each pool transaction is a
\* key of outpoints mapping to that transaction, and every key of outpoints
\* is an input of exactly one pool transaction.
C1_NoPoolDoubleSpend ==
    /\ \A h \in pool : \A o \in TxInSet(h) :
            o \in DOMAIN outpoints /\ outpoints[o] = h
    /\ \A o \in DOMAIN outpoints :
            Cardinality({h \in pool : o \in TxInSet(h)}) = 1

\* a second spender of an outpoint the pool already spends was just refused
C1_Witness ==
    /\ last.op = "MaybeAcceptTransaction" /\ last.tx = 2 /\ last.err = "Duplicate"
    /\ 1 \in pool /\ 2 \notin pool
    /\ OutPoint(0, 0) \in DOMAIN outpoints

\* C6: in every reachable state no hash is both in pool and in orphans.
C6_PoolXorOrphans == pool \cap DOMAIN orphans = {}

\* an orphan was just promoted into the pool while other orphans remain
C6_Witness ==
    /\ last.op = "ProcessTransaction" /\ Len(last.accepted) >= 2
    /\ Range(last.accepted) \subseteq pool
    /\ DOMAIN orphans # {}

\* C7: in every reachable state the orphan index is exact: every input of
\* every orphan lists the orphan under its outpoint, every listed hash is an
\* orphan that has the outpoint as an input, and no index entry is empty.
C7_OrphanIndexExact ==
    /\ \A h \in DOMAIN orphans : \A o \in TxInSet(h) :
            o \in DOMAIN orphansByPrev /\ h \in orphansByPrev[o]
    /\ \A o \in DOMAIN orphansByPrev :
            /\ orphansByPrev[o] # {}
            /\ \A h \in orphansByPrev[o] :
                    h \in DOMAIN orphans /\ o \in TxInSet(h)

\* a removal by tag took one of two orphans that shared an outpoint
C7_Witness ==
    /\ last.op = "RemoveOrphansByTag" /\ last.n >= 1
    /\ \E o \in DOMAIN orphansByPrev : \E h \in TxHashes :
            /\ o \in TxInSet(h)
            /\ h \notin DOMAIN orphans
            /\ h \notin pool

\* C8: after every ProcessTransaction call the number of orphans is at most
\* MaxOrphanTxs, whatever MaxOrphanTxs >= 0 is.
C8_OrphanLimit ==
    last.op = "ProcessTransaction" =>
        Cardinality(DOMAIN orphans) <= maxOrphanTxs

\* the pool was full, the expiry scan ran in the call and a new orphan was
\* admitted
C8_Witness ==
    /\ last.op = "ProcessTransaction" /\ last.tx \in DOMAIN orphans
    /\ last.n >= 1
    /\ Cardinality(DOMAIN orphans) = maxOrphanTxs
    /\ nextExpireScan = now + orphanExpireScanInterval

\* the pool was full of unexpired orphans and one was evicted for the new one
C8_WitnessEvict ==
    /\ last.op = "ProcessTransaction" /\ last.tx \in DOMAIN orphans
    /\ last.n = 1
    /\ Cardinality(DOMAIN orphans) = maxOrphanTxs
    /\ \A h \in DOMAIN orphans : orphans[h].expiration = now + orphanTTL
    /\ nextExpireScan > now
    /\ now > 0

\* some input of h is a key of outpoints
SpendsPoolOutpoint(h) == \E o \in TxInSet(h) : o \in DOMAIN outpoints

\* this step is a ProcessTransaction or MaybeAcceptTransaction call on h
SubmitStep(h) ==
    /\ last'.op \in {"ProcessTransaction", "MaybeAcceptTransaction"}
    /\ last'.tx = h

\* C9 as stated: a transaction with an input that is already a key of
\* outpoints is rejected by ProcessTransaction / MaybeAcceptTransaction with
\* code Duplicate, and pool, outpoints, orphans and orphansByPrev are unchanged.
C9_RejectedDuplicate ==
    [][\A h \in TxHashes :
        SpendsPoolOutpoint(h) /\ SubmitStep(h) =>
            /\ last'.err = "Duplicate"
            /\ UNCHANGED <<pool, outpoints, orphans, orphansByPrev>>]_vars

\* C9 (amended): such a transaction is always rejected with the four maps
\* unchanged; the code is Duplicate when the transaction passes the checks
\* that run before the double-spend check (CheckTransactionSanity here),
\* and is the code of the failing earlier check otherwise.
C9_RejectedUnchanged ==
    [][\A h \in TxHashes :
        SpendsPoolOutpoint(h) /\ SubmitStep(h) =>
            /\ last'.err # "none"
            /\ TxTable[h].sane => last'.err = "Duplicate"
            /\ UNCHANGED <<pool, outpoints, orphans, orphansByPrev>>]_vars

\* transaction 7 was just refused as a double spend of the output that pool
\* transaction 3 spends
C9_Witness ==
    /\ last.op = "ProcessTransaction" /\ last.tx = 7 /\ last.err = "Duplicate"
    /\ 3 \in pool /\ 7 \notin pool /\ 7 \notin DOMAIN orphans
    /\ OutPoint(1, 0) \in DOMAIN outpoints /\ outpoints[OutPoint(1, 0)] = 3

\* h would be accepted into the pool now
Acceptable(h) ==
    LET r == maybeAcceptTransaction(MP, chainUtxos, h, TRUE)
    IN r.err = "none" /\ r.missing = {}

\* what accepting h and then processOrphans(h) can end with: the resulting
\* pool and the set of accepted descendants
PromotionOutcomes(h) ==
    {[pool |-> out.m.pool, accepted |-> Range(out.acc)] :
        out \in processOrphans(addTransaction(MP, h), chainUtxos, h)}

\* no two orphans spend the same outpoint
NoOrphanConflict ==
    \A o \in DOMAIN orphansByPrev : Cardinality(orphansByPrev[o]) <= 1

\* C10 as stated: accepting a transaction and running processOrphans on it
\* yields one set of accepted descendants and one pool, whatever the map
\* iteration order, for every set of stashed orphans.
C10_OrderIndependent ==
    \A h \in TxHashes :
        Acceptable(h) => Cardinality(PromotionOutcomes(h)) = 1

\* C10 (amended): when no two stashed orphans spend the same outpoint, the
\* outcome is unique, every accepted descendant ends in the pool and not in
\* the orphans, and no orphan is left behind that spends an output of the
\* transaction or of an accepted descendant and has all its parents.
C10_OrderIndependentNoConflict ==
    \A h \in TxHashes :
        Acceptable(h) /\ NoOrphanConflict =>
            /\ Cardinality(PromotionOutcomes(h)) = 1
            /\ \A out \in processOrphans(addTransaction(MP, h), chainUtxos, h) :
                /\ Range(out.acc) \subseteq out.m.pool
                /\ Range(out.acc) \cap DOMAIN out.m.orphans = {}
                /\ out.m.pool = pool \cup {h} \cup Range(out.acc)
                /\ \A o \in DOMAIN out.m.orphans :
                      (\E a \in {h} \cup Range(out.acc) :
                            TxInSet(o) \cap TxOutPoints(a) # {})
                      => maybeAcceptTransaction(out.m, chainUtxos, o, FALSE).missing # {}

\* a transaction is about to be accepted while a child and a grandchild of
\* it wait as orphans, no two orphans in conflict
C10_Witness ==
    /\ Acceptable(1)
    /\ NoOrphanConflict
    /\ {3, 5} \subseteq DOMAIN orphans
    /\ PromotionOutcomes(1) = {[pool |-> pool \cup {1, 3, 5}, accepted |-> {3, 5}]}

\* the place of x in the sequence s
Pos(s, x) == CHOOSE i \in 1..Len(s) : s[i] = x

\* C11: when ProcessTransaction accepts a transaction, the returned list has
\* the submitted transaction first, lists no transaction twice, lists every
\* promoted orphan after each listed transaction that supplies one of its
\* inputs, and every listed transaction is in the pool and not in the orphans.
C11_AcceptedParentFirst ==
    (last.op = "ProcessTransaction" /\ last.err = "none" /\ last.accepted # <<>>) =>
        /\ last.accepted[1] = last.tx
        /\ \A i, j \in 1..Len(last.accepted) :
                last.accepted[i] = last.accepted[j] => i = j
        /\ \A i \in 1..Len(last.accepted) :
                /\ last.accepted[i] \in pool
                /\ last.accepted[i] \notin DOMAIN orphans
                /\ \A o \in TxInSet(last.accepted[i]) :
                        o[1] \in Range(last.accepted) =>
                            Pos(last.accepted, o[1]) < i
        /\ \A i \in 2..Len(last.accepted) :
                \E o \in TxInSet(last.accepted[i]) : o[1] \in Range(last.accepted)

\* a parent was accepted and its stashed child and grandchild were promoted
C11_Witness ==
    /\ last.op = "ProcessTransaction" /\ last.err = "none"
    /\ last.accepted = <<1, 3, 5>>
    /\ {1, 3, 5} \subseteq pool

\* the orphans of S and the orphans that spend an output of one of them, and
\* so on: what removeOrphan(_, true) takes away with S
RECURSIVE OrphanDescendants(_)
OrphanDescendants(S) ==
    LET S1 == S \cup {x \in DOMAIN orphans :
                        \E o \in TxInSet(x) :
                            o[1] \in S /\ o[2] < TxTable[o[1]].nOut}
    IN IF S1 = S THEN S ELSE OrphanDescendants(S1)

\* the orphans whose expiration is before the current time
ExpiredOrphans == {x \in DOMAIN orphans : now > orphans[x].expiration}

\* this step is a ProcessTransaction call that stored its transaction as a
\* new orphan
OrphanAdmitted ==
    /\ last'.op = "ProcessTransaction" /\ last'.err = "none"
    /\ last'.tx \notin DOMAIN orphans
    /\ last'.tx \in DOMAIN orphans'

\* C12: when a new orphan is admitted and the current time is after
\* nextExpireScan, every orphan whose expiration is before the current time
\* is gone afterwards, together with all its orphan descendants, and
\* nextExpireScan is the current time plus the scan interval.
C12_ExpiredOrphansRemoved ==
    [][(OrphanAdmitted /\ now > nextExpireScan) =>
            /\ OrphanDescendants(ExpiredOrphans) \cap DOMAIN orphans' \subseteq {last'.tx}
            /\ (ExpiredOrphans # {} /\ ExpiredOrphans = DOMAIN orphans
                    => DOMAIN orphans' = {last'.tx})
            /\ nextExpireScan' = now + orphanExpireScanInterval]_vars

\* sixteen minutes after the pool was made, a new orphan was admitted and is
\* the only one left: an orphan of minute 0 and its child went in the scan
C12_Witness ==
    /\ last.op = "ProcessTransaction" /\ last.err = "none" /\ last.tx = 7
    /\ last.n = 2
    /\ DOMAIN orphans = {7}
    /\ now = 16
    /\ nextExpireScan = now + orphanExpireScanInterval

\* C13: when ProcessTransaction returns a nil error, the returned list
\* contains the passed transaction, whatever the outcome, the one with
\* missing parents and allowOrphan set included.
C13_NilErrorListsTx ==
    (last.op = "ProcessTransaction" /\ last.err = "none") =>
        last.tx \in Range(last.accepted)

\* C14: Flush(FlushRequired, best) with best.Hash different from
\* lastFlushHash always writes back: it never returns without having run
\* flush, whatever the cache holds, and when it returns the persisted marker
\* is Consistent(best.Hash) and lastFlushHash is best.Hash.
C14_RequiredFlushUnconditional ==
    /\ ev = "flushNotRun" => lastFlushHash = tip
    /\ ev \in {"flushed", "flushSkipped"} =>
            /\ marker = [status |-> "Consistent", hash |-> tip]
            /\ lastFlushHash = tip

\* C15: when InitConsistentState(tip) finds the marker at a proper ancestor h
\* of the tip, it terminates unless the process is killed or the interrupt
\* signal is raised: it comes back
\* with the blocks replayed up to the tip, the utxo bucket that of the tip,
\* the persisted marker Consistent(tip) and lastFlushHash = tip.
C15_RecoveryTerminates ==
    (ev = "recovering" /\ statusHeight < tip /\ ~interrupt) ~>
        \/ pc = "down"
        \/ interrupt
        \/ /\ pc = "idle" /\ ev = "initDone"
           /\ node = tip
           /\ DurableAtTip
           /\ lastFlushHash = tip

\* a recovery from the genesis block to a tip three blocks above it has
\* come back
C15_Witness ==
    /\ pc = "idle" /\ ev = "initDone"
    /\ statusHeight = 0 /\ node = 3 /\ tip = 3
    /\ marker = [status |-> "Consistent", hash |-> 3]
    /\ lastFlushHash = 3

\* the steps at which a batch of InitConsistentState ends and the call goes
\* on or returns: a turn of the rollback loop, and the return of the flush
\* that follows a batch of the replay loop
BatchBoundary ==
    \/ pc = "rollback" /\ pc' # "rollback"
    \/ pc = "rollback" /\ node' # node
    \/ /\ pc \in {"flush", "flushing"} /\ flushRet \in {"rollforward", "ready"}
       /\ pc' \notin {"flush", "flushing"}

\* C16: once the interrupt signal is raised during InitConsistentState, the
\* batch under way is the last one: at its end the call returns the
\* interrupted error (unless the batch fails or the process is killed first),
\* and the call does return; and an InitConsistentState(tip) that runs to
\* completion on the database an interrupted call left behind ends with the
\* marker Consistent(tip) and the utxo set of an uninterrupted recovery.
C16_InterruptRecoverable ==
    /\ [][(interrupt /\ BatchBoundary) =>
            pc' \in {"interrupted", "failed", "down"}]_vars
    /\ (interrupt /\ RecoveryPending) ~> (pc \in {"interrupted", "failed", "down"})
    /\ []((ev = "initDone" /\ killedAt = "interrupt") => DurableAtTip)

\* a recovery completed on the state left by a call that was interrupted in
\* its replay loop, after the flush of a batch below the tip
C16_Witness ==
    /\ ev = "initDone" /\ killedAt = "interrupt"
    /\ statusHeight \in 1..(tip - 1)
    /\ DurableAtTip

\* a call interrupted in its rollback loop has returned
C16_WitnessRollback ==
    /\ pc = "interrupted" /\ interrupt
    /\ node < tip /\ marker.hash < node
    /\ marker.status = "FlushOngoing"

\* C17: every cached entry that is neither modified nor fresh is the entry
\* the database holds at its outpoint, and every outpoint cached as nil has no
\* record in the database.
C17_CleanEntriesDurable ==
    \A o \in DOMAIN cachedEntries :
        LET e == cachedEntries[o]
        IN /\ e = Nil => o \notin DOMAIN db
           /\ (e # Nil /\ ~e.modified /\ ~e.fresh) => e = dbFetchUtxoEntry(db, o)

\* C18: every entry held in the cache or in a view that is spent is modified,
\* and every such entry that is fresh is modified.
C18_FlagsImplyModified ==
    /\ \A o \in DOMAIN cachedEntries :
            cachedEntries[o] # Nil =>
                /\ cachedEntries[o].spent => cachedEntries[o].modified
                /\ cachedEntries[o].fresh => cachedEntries[o].modified
    /\ \A o \in DOMAIN view :
            view[o] # Nil =>
                /\ view[o].spent => view[o].modified
                /\ view[o].fresh => view[o].modified

C19_WitnessPromoted ==
    /\ last.op = "ProcessTransaction" /\ last.tx = 1
    /\ last.accepted = <<1, 8>>
    /\ 9 \notin pool /\ 9 \notin DOMAIN orphans
    /\ maxOrphanTxs >= 2

\* C20: when ProcessTransaction has accepted a transaction and promoted its
\* orphans, every orphan that redeems an output of an accepted transaction
\* was tried: it was accepted, or removed because it failed, or it is still
\* an orphan because a parent of it is still missing.  No orphan is left
\* whose parents are all there, whatever happened to the other orphans that
\* redeem the same output.
C20_SiblingsStillAttempted ==
    (last.op = "ProcessTransaction" /\ last.err = "none" /\ last.accepted # <<>>) =>
        \A c \in DOMAIN orphans :
            (\E a \in Range(last.accepted) : TxInSet(c) \cap TxOutPoints(a) # {})
                => maybeAcceptTransaction(MP, chainUtxos, c, FALSE).missing # {}

\* the outpoints the transactions ProcessTransaction has just returned as
\* accepted spend
AcceptedInputs == UNION {TxInSet(a) : a \in Range(last'.accepted)}

\* the orphans, before the call, that spend one of these outpoints and are
\* not themselves accepted
ConflictingOrphans ==
    {c \in DOMAIN orphans \ Range(last'.accepted) : TxInSet(c) \cap AcceptedInputs # {}}

\* C21: when ProcessTransaction returns a non-empty accepted list, no orphan
\* that remains spends an outpoint that an accepted transaction spends, and
\* the orphans that did so before the call are gone together with every
\* orphan that descends from them.
C21_NoConflictingOrphans ==
    [][(last'.op = "ProcessTransaction" /\ last'.err = "none" /\ last'.accepted # <<>>) =>
            /\ \A c \in DOMAIN orphans' : TxInSet(c) \cap AcceptedInputs = {}
            /\ OrphanDescendants(ConflictingOrphans) \cap DOMAIN orphans' = {}]_vars

\* tx7 was accepted into a pool that holds its parent tx1 and nothing else:
\* the orphan tx3, which spends the same output of tx1, and the orphan tx5,
\* which spends tx3, are gone
C21_Witness ==
    /\ last.op = "ProcessTransaction" /\ last.accepted = <<7>>
    /\ pool = {1, 7}
    /\ {3, 5} \cap DOMAIN orphans = {}
    /\ orphansByPrev = <<>>

\* C22: when RemoveOrphansByTag(tag) returns, no orphan carries the tag, and
\* no orphan is left that spends, directly or through other orphans, an
\* output of an orphan the call removed.
C22_TagEvictionComplete ==
    [][last'.op = "RemoveOrphansByTag" =>
            LET removed == DOMAIN orphans \ DOMAIN orphans'
            IN /\ \A x \in DOMAIN orphans' : orphans'[x].tag # last'.tx
               /\ OrphanDescendants(removed) \cap DOMAIN orphans' = {}
               /\ \A x \in DOMAIN orphans' :
                        \A o \in TxInSet(x) : o[1] \notin removed]_vars

\* RemoveOrphansByTag(1) removed one tagged orphan and an orphan with tag 2
\* is still waiting
C22_Witness ==
    /\ last.op = "RemoveOrphansByTag" /\ last.tx = 1 /\ last.n = 1
    /\ \E x \in DOMAIN orphans : orphans[x].tag = 2

\* RemoveOrphansByTag(1) counted one orphan and left none, the pool being
\* empty: the case of tx3 with tag 1 and its child tx5 with tag 2
C22_WitnessDescendant ==
    /\ last.op = "RemoveOrphansByTag" /\ last.tx = 1 /\ last.n = 1
    /\ orphans = <<>> /\ orphansByPrev = <<>> /\ pool = {}

\* every input of every pool transaction is a key of outpoints that maps to
\* the transaction
PoolInputsInOutpoints ==
    \A h \in pool : \A o \in TxInSet(h) : o \in DOMAIN outpoints /\ outpoints[o] = h

\* C23: whatever the interleaving of the writers and the readers of the
\* pool, a thread that is between the Lock and the Unlock of a writer is
\* alone in the pool (acceptances are ordered by the lock), and whenever a
\* reader holds the read lock every pool transaction has all its inputs in
\* outpoints.
C23_ReadersSeeWholeAcceptances ==
    /\ \A p \in Procs : thr[p].pc = "reading" => PoolInputsInOutpoints
    /\ \A p, q \in Procs :
            (p # q /\ thr[p].pc \in WriterPcs) => thr[q].pc = "idle"

\* a writer is in the middle of addTransaction for tx5: tx5 is in the pool,
\* its first input is in outpoints and its second is not, and the other
\* thread has returned from a read
C23_Witness ==
    /\ \E p \in Procs : thr[p].pc = "outpoints" /\ thr[p].tx = 5 /\ thr[p].k = 2
    /\ 5 \in pool /\ ~PoolInputsInOutpoints
    /\ last.op \in ReaderOps

\* C24: whenever a thread is inside FetchEntry or FetchTxView (it holds
\* s.mtx) while a block is being committed to the cache, what the cache
\* answers for the outpoints is what it answered before the block, or what
\* it answers once every entry of the block's view is committed: never the
\* effects of a part of the block.
C24_BlockAtomicForReaders ==
    \A p, q \in Procs :
        (thr[p].pc = "reading" /\ thr[q].pc = "commit") =>
            \/ ObservedIn(cachedEntries) = thr[q].pre
            \/ ObservedIn(cachedEntries) =
                    ObservedIn(commitEntries(cachedEntries, view, thr[q].todo))

\* block 2 is half committed (what the cache answers is neither the state
\* before the block nor the state after it) and the other thread is idle,
\* having to wait for the chain lock
C24_Witness ==
    \E q \in Procs :
        /\ thr[q].pc = "commit" /\ tip = 1
        /\ ObservedIn(cachedEntries) # thr[q].pre
        /\ ObservedIn(cachedEntries) #
                ObservedIn(commitEntries(cachedEntries, view, thr[q].todo))
        /\ \A p \in Procs \ {q} : thr[p].pc = "idle"

\* C25: when a flush returns nil after earlier flushes failed with an error
\* of the database, the utxo bucket and the marker are those of a flush at the
\* tip that never failed: no modified entry was lost.
C25_FailedFlushLosesNothing ==
    ev = "flushed" => DurableAtTip

-----------------------------------------------------------------------------
(* Properties of views and of the cache under them, checked under ApiSpec *)

\* C26: when connectTransactions on a view returns the assertion error of a
\* missing input, the view is as it was before the call: none of the block's
\* outputs is added and none of its inputs is spent.
C26_FailedConnectChangesNothing ==
    [][((\E k \in 1..ApiBlocks : ViewConnect(k)) /\ ev' = "viewFailed")
            => view' = view]_vars

\* C27: after the view.prune() that ends Commit, every entry of the view
\* that was modified and spent is gone, and every entry that remains has its
\* modified flag cleared, whatever the flag was before.
C27_PruneClearsModified ==
    [][Commit =>
            /\ \A o \in DOMAIN view :
                    (view[o] # Nil /\ view[o].modified /\ view[o].spent)
                        => o \notin DOMAIN view'
            /\ \A o \in DOMAIN view' : ~view'[o].modified]_vars

\* the first half alone: the modified and spent entries are deleted
C27_PruneDeletesSpent ==
    [][Commit =>
            \A o \in DOMAIN view :
                (view[o] # Nil /\ view[o].modified /\ view[o].spent)
                    => o \notin DOMAIN view']_vars

C29_SpendMissingIsReported ==
    [][\A o \in ApiOutPoints :
            (ViewSpendMissing(o) \/ CacheSpendMissing(o))
                => /\ ev' = "viewFailed"
                   /\ view' = view
                   /\ cachedEntries' = cachedEntries]_vars

\* the part of C29 about the cache alone: the call is not a success
C29_CacheSpendMissingIsReported ==
    [][\A o \in ApiOutPoints : CacheSpendMissing(o) => ev' # "spendReturnedNil"]_vars

\* the part of C29 about the view alone: the view is left as it was
C29_ViewSpendMissingChangesNothing ==
    [][\A o \in ApiOutPoints : ViewSpendMissing(o) => view' = view]_vars

\* the four fields of an entry that describe the output
SameOutput(a, b) ==
    /\ a.amount = b.amount
    /\ a.pkScript = b.pkScript
    /\ a.blockHeight = b.blockHeight
    /\ a.coinbase = b.coinbase

\* what FetchEntry answers for o when the cache holds C
Reported(C, o) == getEntry(C, db, o).e

\* the cache keeps what it had for o: the same key with the same value
KeptFor(o) ==
    /\ (o \in DOMAIN cachedEntries') = (o \in DOMAIN cachedEntries)
    /\ Cached(cachedEntries', o) = Cached(cachedEntries, o)

\* C30 as stated: after Commit(view), a view entry that is neither modified
\* nor fresh leaves the cache as it was; a modified or fresh entry that is
\* spent is no longer reported unspent by the cache; a modified or fresh entry
\* that is unspent is in the cache, unspent, with the amount, script, height
\* and coinbase flag of the view entry, whatever the cache held before.
C30_CommitOverwrites ==
    [][Commit =>
        \A o \in DOMAIN view :
            LET e == view[o]
                c2 == Cached(cachedEntries', o)
            IN IF e = Nil \/ (~e.modified /\ ~e.fresh) THEN KeptFor(o)
               ELSE IF e.spent
               THEN Reported(cachedEntries', o) = Nil
                        \/ Reported(cachedEntries', o).spent
               ELSE c2 # Nil /\ ~c2.spent /\ SameOutput(c2, e)]_vars

\* C30, amended: as above, except that an unspent view entry replaces what
\* the cache held only when the cache held no entry or a spent entry for the
\* outpoint; when the cache already held an unspent entry, the cache keeps
\* that entry unchanged.
C30_CommitKeepsUnspentCacheEntries ==
    [][Commit =>
        \A o \in DOMAIN view :
            LET e == view[o]
                c == Cached(cachedEntries, o)
                c2 == Cached(cachedEntries', o)
            IN IF e = Nil \/ (~e.modified /\ ~e.fresh) THEN KeptFor(o)
               ELSE IF e.spent
               THEN Reported(cachedEntries', o) = Nil
                        \/ Reported(cachedEntries', o).spent
               ELSE IF c # Nil /\ ~c.spent
               THEN c2 = c
               ELSE c2 # Nil /\ ~c2.spent /\ SameOutput(c2, e)]_vars

\* a Commit has just run on a view whose unspent entry for some outpoint
\* (modified before the prune) differs from the unspent entry the cache has
C30_Witness ==
    /\ ev = "commit"
    /\ \E o \in DOMAIN view :
            /\ view[o] # Nil
            /\ ~view[o].spent
            /\ ~view[o].modified
            /\ Cached(cachedEntries, o) # Nil
            /\ ~Cached(cachedEntries, o).spent
            /\ ~SameOutput(Cached(cachedEntries, o), view[o])

-----------------------------------------------------------------------------
(* Properties of connect_block and of the flush, checked under ReorgSpec    *)

\* the output an outpoint names, as the chain created it
PreImage(o) ==
    [Amount |-> TxOutValue(o), PkScript |-> TxOutPkScript(o),
     Height |-> CreatedAt(o), IsCoinBase |-> IsCoinBaseOutPoint(o)]

\* C31: connect_block adds the outputs of every transaction of the block
\* before it spends an input, so no connect of a block of the chain fails,
\* block 3 included, where transaction 32 spends an output of the later
\* transaction 33; and the stxos of every connected block hold one pre-image
\* per spent input, in the order of the transactions and of their inputs.
C31_ConnectCollectsStxosInOrder ==
    /\ ev # "connectFailed"
    /\ \A k \in 1..Len(journal) :
            LET ins == BlockInputs(BlockTable[k], 1)
            IN /\ Len(journal[k]) = Len(ins)
               /\ \A j \in 1..Len(ins) : journal[k][j] = PreImage(ins[j])

\* block 3 has just been connected
C31_Witness ==
    /\ ev = "connect"
    /\ tip = 3
    /\ Len(journal) = 3
    /\ journal[3] = <<PreImage(OutPoint(33, 0)), PreImage(OutPoint(23, 0))>>

-----------------------------------------------------------------------------
(* Properties of the flush and of the recovery, checked under CacheSpec     *)

\* the marker a flush writes before its batches
Ongoing(h) == [status |-> "FlushOngoing", hash |-> h]

\* C32: in a flush that writes back, the marker FlushOngoing(lastFlushHash)
\* is in the database before any entry is written or deleted; the marker
\* Consistent(bestState.Hash) is written, and lastFlushHash set to that hash,
\* only when no entry is left in the cache to write; and a process killed in
\* between leaves the marker FlushOngoing(lastFlushHash as it was).
C32_MarkerBracketsTheWrites ==
    [][/\ (db' # db) => (marker = Ongoing(lastFlushHash) /\ marker' = marker
                            /\ lastFlushHash' = lastFlushHash)
       /\ (pc = "flushing" /\ marker' # marker)
            => /\ cachedEntries = <<>>
               /\ marker' = [status |-> "Consistent", hash |-> flushHash]
               /\ lastFlushHash' = flushHash
       /\ (pc' = "flushing") => marker' = Ongoing(lastFlushHash')
       /\ (pc = "flushing" /\ pc' = "down") => marker' = Ongoing(lastFlushHash)]_vars

\* the process was killed between two batches of a flush that had written
\* entries, and the marker on disk says a flush was under way
C32_Witness ==
    /\ pc = "down"
    /\ killedAt = "betweenBatches"
    /\ marker.status = "FlushOngoing"
    /\ db # <<>>

\* C33: in a recovery that rolls blocks back (the marker names a block h
\* below the tip), when the flush that follows the rollback walk returns and
\* the replay is about to begin, the entries the rollback modified have been
\* written to the database and the marker is Consistent(h).
C33_RollbackIsFlushed ==
    [][(pc # "replay" /\ pc' = "replay" /\ tip > statusHeight)
            => /\ Modified(cachedEntries') = {}
               /\ marker' = [status |-> "Consistent", hash |-> statusHeight]]_vars

\* the part of C33 about the entries alone, for a recovery that started from
\* a marker Consistent(h)
C33_RollbackEntriesWritten ==
    [][(pc # "replay" /\ pc' = "replay" /\ tip > statusHeight
            /\ marker.status = "Consistent")
            => Modified(cachedEntries') = {}]_vars

-----------------------------------------------------------------------------
(* Properties of the recovery after a reorganisation, checked under         *)
(* StaleSpec                                                                *)

\* C34: when the marker (Consistent or FlushOngoing) names a hash other than
\* the tip's that no block of the best chain ending at the tip has,
\* InitConsistentState returns an error (it neither panics nor loops) and
\* writes nothing to the database.
C34_StaleMarkerIsReported ==
    [][(Start /\ marker.status # "Empty" /\ marker.hash # tip
              /\ marker.hash \notin 0..tip)
            => (pc' = "failed" /\ UNCHANGED dbVars)]_vars

\* the part of C34 about the database alone
C34_StaleMarkerWritesNothing ==
    [][(Start /\ marker.status # "Empty" /\ marker.hash # tip
              /\ marker.hash \notin 0..tip)
            => UNCHANGED dbVars]_vars

-----------------------------------------------------------------------------
(* Properties of the recovery on a failing database, checked under          *)
(* FaultSpec                                                                *)

\* InitConsistentState is running and found the marker FlushOngoing(tip)
RecoveringAtTip ==
    /\ RecoveryPending
    /\ statusHeight = tip
    /\ marker = Ongoing(tip)

\* C35: an InitConsistentState(tip) that finds the marker FlushOngoing(h)
\* with h the hash of the tip does not fail and does not crash, and when it
\* returns the marker is Consistent(tip).
C35_OngoingAtTipRecovers ==
    [][RecoveringAtTip
            => /\ pc' \notin {"panic", "failed"}
               /\ (pc' = "idle") => marker' = [status |-> "Consistent", hash |-> tip]]_vars

-----------------------------------------------------------------------------
(* Further properties of the mempool, checked under Spec                    *)

\* the outputs of a set of transactions
OutputsOf(S) == UNION {TxOutPoints(t) : t \in S}

\* C36: after RemoveDoubleSpends(tx), no pool transaction other than tx
\* spends an input of tx, and no pool transaction spends an output of a
\* transaction the call removed; after RemoveTransaction(t, true), no pool
\* transaction spends an output of t or of a transaction the call removed.
C36_RemovalsLeaveNoSpender ==
    [][/\ (last'.op = "RemoveDoubleSpends" /\ RemoveDoubleSpends(last'.tx)) =>
            /\ \A p \in pool' \ {last'.tx} : TxInSet(p) \cap TxInSet(last'.tx) = {}
            /\ \A p \in pool' : TxInSet(p) \cap OutputsOf(pool \ pool') = {}
       /\ (last'.op = "RemoveTransaction" /\ RemoveTransaction(last'.tx, TRUE)) =>
            \A p \in pool' :
                TxInSet(p) \cap OutputsOf({last'.tx} \cup (pool \ pool')) = {}]_vars

\* RemoveDoubleSpends(tx7) has removed tx3, which spent the same output of
\* tx1 as tx7, and tx5, which spent tx3
C36_Witness ==
    /\ last.op = "RemoveDoubleSpends" /\ last.tx = 7 /\ last.n = 2
    /\ pool = {1}
    /\ DOMAIN outpoints = TxInSet(1)

\* RemoveTransaction(tx1, true) has removed tx1, its child tx3 and tx5
C36_WitnessRemove ==
    /\ last.op = "RemoveTransaction" /\ last.tx = 1 /\ last.n = 3
    /\ pool = {}

-----------------------------------------------------------------------------
(* Properties of the memory accounting, checked under MemSpec               *)

\* C37: totalEntryMemory is the sum of memoryUsage() over the entries in
\* cachedEntries (0 for a nil entry) and no subtraction from it ever wraps;
\* after a flush that wrote back, the map is empty and the counter is 0.
C37_MemoryIsTheSumOfEntries ==
    /\ totalEntryMemory = EntryMemory(cachedEntries, DOMAIN cachedEntries)
    /\ ~memUnderflow
    /\ (ev = "flushed") => (cachedEntries = <<>> /\ totalEntryMemory = 0)

\* the cache holds a nil entry, a spent entry without script and an unspent
\* entry, and the counter is not 0
C37_Witness ==
    /\ \E o \in DOMAIN cachedEntries : cachedEntries[o] = Nil
    /\ \E o \in DOMAIN cachedEntries :
            cachedEntries[o] # Nil /\ cachedEntries[o].spent
                /\ cachedEntries[o].pkScript = NoScript
    /\ \E o \in DOMAIN cachedEntries :
            cachedEntries[o] # Nil /\ ~cachedEntries[o].spent
    /\ totalEntryMemory > 0

\* a flush that wrote entries back has just returned
C37_WitnessFlushed ==
    /\ ev = "flushed"
    /\ db # <<>>
    /\ cachedEntries = <<>>
    /\ totalEntryMemory = 0

-----------------------------------------------------------------------------
(* Properties of the rollback walk, checked under CacheSpec                 *)

\* the block below the last one a batch that starts at block n disconnects:
\* utxoBatchSizeBlocks blocks further down, or the status block
NextToDisconnect(n) ==
    IF n - utxoBatchSizeBlocks > statusHeight THEN n - utxoBatchSizeBlocks
    ELSE statusHeight

\* C38: in the rollback walk of the recovery every block above the status
\* block is disconnected exactly once: a batch that starts at the block
\* `node` disconnects the blocks from node downwards and returns the first
\* block it has not disconnected, where the next batch starts (the status
\* block when none is left), also when the blocks fill more than one batch.
C38_RollbackBatchReturnsNextBlock ==
    [][(RollbackBatch /\ pc' # "failed") => node' = NextToDisconnect(node)]_vars

\* the part of C38 for a walk that fits into one batch without filling it
C38_ShortWalkReturnsStatusBlock ==
    [][(RollbackBatch /\ pc' # "failed" /\ node - statusHeight < utxoBatchSizeBlocks)
            => node' = statusHeight]_vars

-----------------------------------------------------------------------------
(* The count returned by RemoveOrphansByTag, checked under Spec             *)

\* the orphans of the map O that carry the tag
Tagged(O, tag) == {h \in DOMAIN O : O[h].tag = tag}

\* C40: the number RemoveOrphansByTag(tag) returns is the number of orphans
\* that carried the tag when the call began, in whatever order the map is
\* ranged over, also when a tagged orphan spends an output of another
\* tagged orphan.
C40_TagCountIsNumberOfTagged ==
    [][last'.op = "RemoveOrphansByTag" =>
            last'.n = Cardinality(Tagged(orphans, last'.tx))]_vars

\* the part of C40 that does not depend on the order: the call never counts
\* more than the tagged orphans, and counts one at least when there is one
C40_TagCountIsBounded ==
    [][last'.op = "RemoveOrphansByTag" =>
            /\ last'.n <= Cardinality(Tagged(orphans, last'.tx))
            /\ (Tagged(orphans, last'.tx) # {} => last'.n >= 1)]_vars

-----------------------------------------------------------------------------
(* The free-transaction rate limit, checked under RateSpec                  *)

\* a ProcessTransaction or MaybeAcceptTransaction call has returned an error
RejectedCall ==
    /\ last'.op \in {"ProcessTransaction", "MaybeAcceptTransaction"}
    /\ last'.err # "none"

\* C39: a ProcessTransaction or MaybeAcceptTransaction call that returns an
\* error leaves pennyTotal as it was, or as the decay over the time since
\* the last charge makes it: the size of the rejected transaction is not
\* added, also when the scripts are what rejects it.
C39_RejectedIsNotCharged ==
    [][RejectedCall =>
            pennyTotal' \in {pennyTotal, Decay(pennyTotal, now - lastPennyUnix)}]_vars

\* the part of C39 for the rejections that come before the script
\* validation: a duplicate, a double spend, missing parents, a fee too
\* low, or the rate limiter itself
C39_EarlyRejectionIsNotCharged ==
    [][(RejectedCall /\ last'.err # "Invalid") =>
            pennyTotal' \in {pennyTotal, Decay(pennyTotal, now - lastPennyUnix)}]_vars

\* an accepted free transaction is charged with its size
C39_AcceptedFreeIsCharged ==
    [][(/\ last'.op \in {"ProcessTransaction", "MaybeAcceptTransaction"}
        /\ last'.err = "none" /\ last'.accepted # <<>>
        /\ pennyTotal' # pennyTotal)
            => pennyTotal' = Decay(pennyTotal, now - lastPennyUnix)
                                + TxTable[last'.tx].size]_vars

====
